---- MODULE Spec2Model ----
(***************************************************************************)
(* Wwise-MCP transport and execution core.                                 *)
(*                                                                         *)
(*   SpecPQ       the timed priority queue of wwise_session.py (_TimedPQ)  *)
(*                with concurrent producers (waapi_call -> enqueue -> put) *)
(*                and the single consumer (get_next_due).                  *)
(*   SpecSession  the session manager and the dispatcher life cycle        *)
(*                (connect_to_waapi, waapi_call, WaapiDispatcher).         *)
(*   SpecPlan     the plan runner of wwise_mcp.py (_run_plan_sync).        *)
(***************************************************************************)
EXTENDS Integers, Sequences, FiniteSets, TLC

\* ------------------------------------------------------------------ bounds
\* max_size handed to _TimedPQ(max_size=...)
MaxSize == 2
\* last value of the monotonic clock
MaxTime == 2
\* largest due_in a producer passes to waapi_call
MaxDueIn == 1
\* number of requests the producers submit in one behaviour
MaxReq == 3

\* number of connect_to_waapi invocations that get past the reconnecting check
MaxConn == 2
\* number of requests the dispatchers' enqueue methods create
MaxCalls == 2
\* number of connects and requests together
MaxOps == 3
\* largest number of items in a list handed to _resolve or bound in the store
MaxItems == 2

\* largest number of steps in a plan handed to execute_plan
MaxPlanLen == 2

\* number of subscriptions created, of events delivered to the callbacks, and
\* largest max_count handed to get_subscription_events
MaxSubs == 1
MaxEvents == 3
MaxCount == 2

\* number of disconnect_from_wwise_client calls that find a dispatcher to stop
MaxDisc == 2

Producers == {1, 2}
Threads == {1, 2}
\* the threads that invoke waapi_call / waapi_subscribe / waapi_unsubscribe;
\* every thread invokes connect_to_waapi
Callers == {2}

\* where disconnect_from_wwise_client is exercised: the thread that invokes
\* it, and the threads that connect and call meanwhile
Disconnectors == {1}
Others == Threads \ Disconnectors
Conns == 1..MaxConn

\* ------------------------------------------------------------- variables
VARIABLES
    now,        \* time.monotonic()
    pq,         \* _TimedPQ._pq: the heap list of (due_at, seq, req)
    seqc,       \* _TimedPQ._seq
    stopFlag,   \* the threading.Event handed to get_next_due
    ppc,        \* producer -> "idle" | "stamped"
    pdue,       \* producer -> due_at of the request it is about to put, and whether
                \* it is a scheduled one (due_in > 0)
    putRes,     \* producer -> outcome of its last put
    cpc,        \* consumer: "run" | "checked" (inside an iteration of
                \* get_next_due, holding the condition lock) | "exited"
    nreq,       \* requests created so far
    nput,       \* requests put has accepted so far (the enqueue order)
    popped      \* requests in the order get_next_due returned them

VARIABLES
    reconnecting,  \* _reconnecting
    client,        \* _client: 0 (None) or the client's number
    dispatcher,    \* _dispatcher: 0 (None) or the dispatcher's number
    nclient,       \* WaapiClient constructions attempted so far
    cstate,        \* client -> "none" | "open" | "closed"
    disp,          \* dispatcher -> its fields and the state of its consumer thread
    replyq,        \* request -> content of its reply_q: empty, or a status and the
                   \* request the reply answers
    ncalls,        \* requests created so far
    th,            \* thread -> program counter and locals of the entry point it runs
    lastConn,      \* how the last finished connect_to_waapi ended
    invoked,       \* the call/subscribe/unsubscribe invocations made on the RPC clients
    closes         \* client -> number of disconnect() invocations made on it

sessVars == <<reconnecting, client, dispatcher, nclient, cstate, disp, replyq, ncalls, th, lastConn,
              invoked, closes>>


pqVars == <<now, pq, seqc, stopFlag, ppc, pdue, putRes, cpc, nreq, nput, popped>>

VARIABLES
    plan,        \* the list handed to execute_plan: one verb (or malformed string) per step
    runPc,       \* where _run_plan_sync is
    stepIx,      \* index of the step of the `for step in plan` loop
    log,         \* log: the entries appended so far
    store,       \* store: the per-plan variable bucket
    need_undo,   \* need_undo
    callSt,      \* the waapi_call of the running command: none | waiting | ok | raised
    inflight,    \* requests of the plan the dispatcher holds; live: a waiter waits for it
    rpcLog,      \* the RPCs the dispatcher executed on the authoring application
    failedAt,    \* the phase whose failure made the plan fail
    refs,        \* per step: the variable its argument names ("none": a literal)
    saves,       \* per step: its save_as ("none": no save_as, or a step given as a string)
    resolved,    \* step -> the value _resolve gave for its reference
    ran,         \* the verbs _run_one was invoked with, in order
    raised,      \* the exception that left _run_plan_sync
    response     \* what execute_plan handed back to its caller

planVars == <<plan, runPc, stepIx, log, store, need_undo, callSt, inflight, rpcLog, failedAt,
              refs, saves, resolved, ran, raised, response>>

VARIABLES
    subscriptions, \* WaapiDispatcher._subscriptions: the registered subscription ids
    event_q,       \* subscription id -> content of the event_q created for it
    nsub,          \* subscriptions created so far
    nev,           \* events delivered so far (an event is named by its number)
    drain,         \* get_subscription_events in progress: its arguments and locals
    lastDrain      \* the last finished get_subscription_events: what it saw and returned

evVars == <<subscriptions, event_q, nsub, nev, drain, lastDrain>>

\* the three mutexes of wwise_session.py and the threads that take them
VARIABLES
    lockOwner,  \* mutex -> the thread holding it, 0 when free
    lockpc      \* thread -> the function it is in and its next lock operation

lockVars == <<lockOwner, lockpc>>

\* one invocation of _resolve
VARIABLES
    rstep,   \* "idle" | "called" | "returned"
    rval,    \* the argument val
    rstore,  \* the argument store
    rres     \* what _resolve returned, or the exception it raised

resVars == <<rstep, rval, rstore, rres>>

\* what the actions of one component leave alone
notPQ == <<sessVars, planVars, evVars, lockVars, resVars>>
notSession == <<pqVars, planVars, evVars, lockVars, resVars>>
notPlan == <<pqVars, sessVars, evVars, lockVars, resVars>>
notEvents == <<pqVars, sessVars, planVars, lockVars, resVars>>
notLocks == <<pqVars, sessVars, planVars, evVars, resVars>>
notResolve == <<pqVars, sessVars, planVars, evVars, lockVars>>

\* ------------------------------------------------------- heapq on tuples
\* (due_at, seq, req) < (due_at, seq, req): tuple comparison of heapq
TupleLt(a, b) == \/ a.due < b.due
                 \/ (a.due = b.due /\ a.seq < b.seq)

\* heapq._siftdown(heap, startpos, pos), 1-based; item is heap[pos]
RECURSIVE SiftDown(_, _, _, _)
SiftDown(heap, startpos, pos, item) ==
    IF pos > startpos
    THEN LET parentpos == pos \div 2
         IN IF TupleLt(item, heap[parentpos])
            THEN SiftDown([heap EXCEPT ![pos] = heap[parentpos]], startpos, parentpos, item)
            ELSE [heap EXCEPT ![pos] = item]
    ELSE [heap EXCEPT ![pos] = item]

\* heapq._siftup(heap, pos): bubble the smaller child up to a leaf, then _siftdown
RECURSIVE SiftUpLoop(_, _, _)
SiftUpLoop(heap, pos, item) ==
    LET endpos   == Len(heap)
        childpos == 2 * pos
        rightpos == childpos + 1
    IN IF childpos <= endpos
       THEN LET c == IF rightpos <= endpos /\ ~TupleLt(heap[childpos], heap[rightpos])
                     THEN rightpos ELSE childpos
            IN SiftUpLoop([heap EXCEPT ![pos] = heap[c]], c, item)
       ELSE SiftDown(heap, 1, pos, item)

heappush(heap, item) == SiftDown(Append(heap, item), 1, Len(heap) + 1, item)

\* the heap after heapq.heappop (the returned item is heap[1])
heappop(heap) ==
    LET lastelt == heap[Len(heap)]
        rest    == SubSeq(heap, 1, Len(heap) - 1)
    IN IF rest = <<>> THEN <<>> ELSE SiftUpLoop(rest, 1, lastelt)

\* --------------------------------------------------------------- _TimedPQ
NoPut == [kind |-> "none", queue_size |-> 0, max_size |-> 0]

QueueFull_gt(q) == Len(q) > MaxSize
QueueFull(q) == Len(q) >= MaxSize

NextSeq_stuck(s) == s
NextSeq(s) == s + 1

\* waapi_call computes due_at = monotonic() + due_in; with due_in = 0 (or None)
\* enqueue reads monotonic() itself.  Either way the clock is read before put
\* takes the queue's condition lock.
Stamp(p) ==
    /\ ppc[p] = "idle"
    /\ nreq < MaxReq
    /\ \E due_in \in 0..MaxDueIn :
          pdue' = [pdue EXCEPT ![p] = [due_at |-> now + due_in, scheduled |-> due_in > 0]]
    /\ nreq' = nreq + 1
    /\ ppc' = [ppc EXCEPT ![p] = "stamped"]
    /\ UNCHANGED <<now, pq, seqc, stopFlag, putRes, cpc, nput, popped>>
    /\ UNCHANGED notPQ

\* _TimedPQ.put
put(p) ==
    /\ ppc[p] = "stamped"
    /\ cpc # "checked"
    /\ IF QueueFull(pq)
       THEN /\ putRes' = [putRes EXCEPT ![p] =
                   [kind |-> "full", queue_size |-> Len(pq), max_size |-> MaxSize]]
            /\ UNCHANGED <<pq, seqc, nput>>
       ELSE /\ pq' = heappush(pq, [due |-> pdue[p].due_at, seq |-> seqc, ord |-> nput + 1,
                                    scheduled |-> pdue[p].scheduled])
            /\ seqc' = NextSeq(seqc)
            /\ nput' = nput + 1
            /\ putRes' = [putRes EXCEPT ![p] =
                   [kind |-> "ok", queue_size |-> 0, max_size |-> 0]]
    /\ ppc' = [ppc EXCEPT ![p] = "idle"]
    /\ UNCHANGED <<now, stopFlag, pdue, cpc, nreq, popped>>
    /\ UNCHANGED notPQ

\* get_next_due: wait = max(0.0, due_at - time.monotonic()) is not > 0
IsDue_ignored(item) == TRUE
IsDue(item) == item.due <= now

\* stop_flag.is_set(), read without any lock
StopSeen_never == FALSE
StopSeen == stopFlag

\* get_next_due, `while not stop_flag.is_set()`: the flag is read as clear and
\* an iteration begins, under the condition lock
get_next_due_check ==
    /\ cpc = "run"
    /\ ~StopSeen
    /\ cpc' = "checked"
    /\ UNCHANGED <<now, pq, seqc, stopFlag, ppc, pdue, putRes, nreq, nput, popped>>
    /\ UNCHANGED notPQ

\* get_next_due, the iteration that returns the head: the heap is not empty
\* and its head is due
get_next_due ==
    /\ cpc = "checked"
    /\ pq # <<>>
    /\ IsDue(pq[1])
    /\ popped' = Append(popped, pq[1])
    /\ pq' = heappop(pq)
    /\ cpc' = "run"
    /\ UNCHANGED <<now, seqc, stopFlag, ppc, pdue, putRes, nreq, nput>>
    /\ UNCHANGED notPQ

\* self._cv.wait(timeout=...): both waits of get_next_due are given a timeout
\* of at most _QUEUE_CHECK_INTERVAL, so they return without a notify; nothing
\* notifies the condition when the stop flag is set
WaitReturns_on_notify_only == FALSE
WaitReturns == TRUE

\* get_next_due, an iteration that waits on the condition (which releases the
\* lock) for at most _QUEUE_CHECK_INTERVAL and continues: the heap is empty
\* or its head is not due
get_next_due_wait ==
    /\ cpc = "checked"
    /\ WaitReturns
    /\ IF pq = <<>> THEN TRUE ELSE ~IsDue(pq[1])
    /\ cpc' = "run"
    /\ UNCHANGED <<now, pq, seqc, stopFlag, ppc, pdue, putRes, nreq, nput, popped>>
    /\ UNCHANGED notPQ

\* get_next_due returns None once the stop flag is read as set; _run leaves
\* its loop
get_next_due_stopped ==
    /\ cpc = "run"
    /\ StopSeen
    /\ cpc' = "exited"
    /\ UNCHANGED <<now, pq, seqc, stopFlag, ppc, pdue, putRes, nreq, nput, popped>>
    /\ UNCHANGED notPQ

\* WaapiDispatcher.stop sets the event
SetStop ==
    /\ ~stopFlag
    /\ stopFlag' = TRUE
    /\ UNCHANGED <<now, pq, seqc, ppc, pdue, putRes, cpc, nreq, nput, popped>>
    /\ UNCHANGED notPQ

\* the monotonic clock advances
Tick ==
    /\ now < MaxTime
    /\ now' = now + 1
    /\ UNCHANGED <<pq, seqc, stopFlag, ppc, pdue, putRes, cpc, nreq, nput, popped>>
    /\ UNCHANGED notPQ

InitPQ ==
    /\ now = 0
    /\ pq = <<>>
    /\ seqc = 0
    /\ stopFlag = FALSE
    /\ ppc = [p \in Producers |-> "idle"]
    /\ pdue = [p \in Producers |-> [due_at |-> 0, scheduled |-> FALSE]]
    /\ putRes = [p \in Producers |-> NoPut]
    /\ cpc = "run"
    /\ nreq = 0
    /\ nput = 0
    /\ popped = <<>>

NextPQ ==
    \/ \E p \in Producers : Stamp(p)
    \/ \E p \in Producers : put(p)
    \/ get_next_due_check
    \/ get_next_due
    \/ get_next_due_wait
    \/ get_next_due_stopped
    \/ SetStop
    \/ Tick

\* the consumer's shutdown, with one thread filling the queue
StopProducers == {1}

NextPQStop ==
    \/ \E p \in StopProducers : Stamp(p)
    \/ \E p \in StopProducers : put(p)
    \/ get_next_due_check
    \/ get_next_due
    \/ get_next_due_wait
    \/ get_next_due_stopped
    \/ SetStop
    \/ Tick


\* ================================================================ session
\* wwise_session.py: module state, connect_to_waapi, waapi_call,
\* waapi_subscribe, waapi_unsubscribe and WaapiDispatcher.
CallOps == {"call", "subscribe", "unsubscribe"}

NoReq == [due |-> 0, seq |-> 0, kind |-> "none", rid |-> 0, wait |-> FALSE, by |-> 0, sub |-> 0,
          entry |-> FALSE, scheduled |-> FALSE]

\* a dispatcher that was never constructed
NoDisp == [stop |-> FALSE, thread |-> "none", client |-> 0, pq |-> <<>>, seq |-> 0,
           cst |-> "idle", cur |-> NoReq, subs |-> {}, ndisc |-> 0, nthreads |-> 0]

IdleThread == [pc |-> "idle", op |-> "none", res |-> "none", as |-> 0, disp |-> 0,
               rid |-> 0, wait |-> FALSE, sub |-> 0, old_d |-> 0, old_c |-> 0,
               cid |-> 0, new_c |-> 0, retry |-> FALSE, got |-> 0]

\* an empty reply_q (queue.Queue(maxsize=1))
NoReply == [st |-> "empty", of |-> 0]

\* reply_q.put(reply, block=False): queue.Full is passed over
ReplyPut(rq, slot, reply) == IF rq[slot].st = "empty" THEN [rq EXCEPT ![slot] = reply] ELSE rq

\* the reply_q the consumer writes to: req["reply_q"], created for this request
ReplySlot(req) == req.rid

\* a thread has left its entry point: what it raised or returned is kept, its
\* locals are gone
Done(me, res) ==
    [IdleThread EXCEPT !.op = me.op, !.res = res, !.as = me.as, !.disp = me.disp,
                       !.retry = me.retry, !.rid = me.rid, !.got = me.got]

\* `if _reconnecting: raise` of connect_to_waapi
AlreadyReconnecting_never == FALSE
AlreadyReconnecting == reconnecting

\* the checks every entry point makes under _lock, in the order of the code
SessionGate_connected_first ==
    IF client = 0 \/ dispatcher = 0 THEN "not_connected"
    ELSE IF reconnecting THEN "reconnecting"
    ELSE "ok"
SessionGate ==
    IF reconnecting THEN "reconnecting"
    ELSE IF client = 0 \/ dispatcher = 0 THEN "not_connected"
    ELSE "ok"

\* WaapiDispatcher.is_alive
is_alive(d) == disp[d].thread = "alive"

\* WaapiDispatcher.is_dispatcher_thread: threading.get_ident() == self._thread_id.
\* ident is the consumer thread of dispatcher ident, or 0 for an ordinary thread
is_dispatcher_thread_never(d, ident) == FALSE
is_dispatcher_thread(d, ident) == ident = d

\* an operation of RPC client c invoked on thread `by` (the consumer thread of
\* dispatcher `by`, or 0 for an ordinary thread): the operation, and whether
\* the invoking thread is the consumer thread of the client's dispatcher, a
\* thread that runs stop on that dispatcher after its stop signal, or another
Invocation(op, c, by) ==
    [op |-> op, by |-> IF by = c THEN "consumer"
                       ELSE IF disp[c].stop THEN "stopper" ELSE "other"]

\* the consumer thread of d is executing an entry point itself
Frozen(d) == \E t \in Threads : th[t].pc # "idle" /\ th[t].as = d

\* the threads on which an entry point can be invoked: an ordinary thread (0)
\* or the consumer thread of a running dispatcher while it handles a request
CallerThreads ==
    {0} \cup {d \in Conns : disp[d].thread = "alive" /\ disp[d].cst = "busy" /\ ~Frozen(d)}

\* _lock is held from the entry of disconnect_from_wwise_client to its
\* return; every other `with _lock` block of the model is one step
LockHeld == \E t \in Threads : th[t].op = "disconnect" /\ th[t].pc # "idle"

\* ------------------------------------------------------ connect_to_waapi
\* Phase 1: `_client = None`, `_dispatcher = None` while holding the lock
ClearGlobal_kept(g) == g
ClearGlobal(g) == 0

\* Phase 1, under _lock
ConnectEnter(t) ==
    /\ th[t].pc = "idle"
    /\ ~LockHeld
    /\ IF AlreadyReconnecting
       THEN /\ th' = [th EXCEPT ![t] = [IdleThread EXCEPT !.op = "connect",
                                            !.res = "already_reconnecting"]]
            /\ UNCHANGED <<reconnecting, client, dispatcher, nclient>>
       ELSE /\ nclient < MaxConn
            /\ nclient + ncalls < MaxOps
            /\ nclient' = nclient + 1
            /\ reconnecting' = TRUE
            /\ th' = [th EXCEPT ![t] = [IdleThread EXCEPT !.op = "connect",
                          !.old_d = dispatcher, !.old_c = client, !.cid = nclient + 1,
                          !.pc = IF dispatcher # 0 THEN "stop_set" ELSE "old_client"]]
            /\ client' = ClearGlobal(client)
            /\ dispatcher' = ClearGlobal(dispatcher)
    /\ UNCHANGED <<cstate, disp, replyq, ncalls, lastConn, invoked, closes>>
    /\ UNCHANGED notSession

\* WaapiDispatcher.stop: self._stop.set()
SetStopFlag_skipped(d) == disp
SetStopFlag(d) == [disp EXCEPT ![d].stop = TRUE]

StopSet(t) ==
    /\ th[t].pc = "stop_set"
    /\ disp' = SetStopFlag(th[t].old_d)
    /\ th' = [th EXCEPT ![t].pc = "stop_join"]
    /\ UNCHANGED <<reconnecting, client, dispatcher, nclient, cstate, replyq, ncalls, lastConn, invoked, closes>>
    /\ UNCHANGED notSession

\* WaapiDispatcher.stop: self._thread.join(timeout) returns because the
\* consumer thread has ended
StopJoined(t) ==
    /\ th[t].pc = "stop_join"
    /\ disp[th[t].old_d].thread # "alive"
    /\ th' = [th EXCEPT ![t].pc = "stop_cleanup"]
    /\ UNCHANGED <<reconnecting, client, dispatcher, nclient, cstate, disp, replyq, ncalls, lastConn, invoked, closes>>
    /\ UNCHANGED notSession

\* WaapiDispatcher.stop: the join times out.  The consumer re-checks the stop
\* flag every _QUEUE_CHECK_INTERVAL (0.1 s), the join waits
\* _DISPATCHER_SHUTDOWN_TIMEOUT (2.0 s): only a consumer that is handling a
\* request (inside an RPC) outlasts the join.
StopJoinTimeout(t) ==
    /\ th[t].pc = "stop_join"
    /\ disp[th[t].old_d].thread = "alive"
    /\ disp[th[t].old_d].cst = "busy"
    /\ th' = [th EXCEPT ![t].pc = "stop_cleanup"]
    /\ UNCHANGED <<reconnecting, client, dispatcher, nclient, cstate, disp, replyq, ncalls, lastConn, invoked, closes>>
    /\ UNCHANGED notSession

\* WaapiClient.disconnect() is invoked on client c (0: no client, nothing done)
Disconnected(c) == IF c # 0 THEN [cstate EXCEPT ![c] = "closed"] ELSE cstate
Counted(c) == IF c # 0 THEN [closes EXCEPT ![c] = @ + 1] ELSE closes

\* WaapiDispatcher.stop: self._client = None
ForgetClient_kept(d) == disp[d].client
ForgetClient(d) == 0

\* WaapiDispatcher.stop: clear the subscriptions, unsubscribe each handler,
\* disconnect the client, self._client = None.  stop then returns, to
\* connect_to_waapi or to disconnect_from_wwise_client, which has nothing
\* left to do and releases _lock
StopCleanup(t) ==
    /\ th[t].pc = "stop_cleanup"
    /\ LET d == th[t].old_d
           c == disp[d].client
           disc == th[t].op = "disconnect"
       IN /\ disp' = [disp EXCEPT ![d].subs = {}, ![d].client = ForgetClient(d),
                                   ![d].ndisc = IF disc THEN @ + 1 ELSE @]
          /\ cstate' = Disconnected(c)
          /\ closes' = Counted(c)
          /\ th' = [th EXCEPT ![t] = IF disc THEN Done(th[t], "ok")
                                       ELSE [th[t] EXCEPT !.pc = "old_client"]]
          /\ invoked' = IF disp[d].subs # {} /\ c # 0
                         THEN invoked \cup {Invocation("unsubscribe", c, th[t].as)}
                         ELSE invoked
    /\ UNCHANGED <<reconnecting, client, dispatcher, nclient, replyq, ncalls, lastConn>>
    /\ UNCHANGED notSession

\* Phase 2: old_client.disconnect()
OldClientDisconnect(t) ==
    /\ th[t].pc = "old_client"
    /\ cstate' = Disconnected(th[t].old_c)
    /\ closes' = Counted(th[t].old_c)
    /\ th' = [th EXCEPT ![t].pc = "new_client"]
    /\ UNCHANGED <<reconnecting, client, dispatcher, nclient, disp, replyq, ncalls, lastConn, invoked>>
    /\ UNCHANGED notSession

\* Phase 3: new_client = WaapiClient(url, allow_exception=True)
NewClientOk(t) ==
    /\ th[t].pc = "new_client"
    /\ cstate' = [cstate EXCEPT ![th[t].cid] = "open"]
    /\ th' = [th EXCEPT ![t].new_c = th[t].cid, ![t].pc = "new_dispatcher"]
    /\ UNCHANGED <<reconnecting, client, dispatcher, nclient, disp, replyq, ncalls, lastConn, invoked, closes>>
    /\ UNCHANGED notSession

\* WaapiDispatcher.start on dispatcher d of ds: nothing when its thread is
\* alive, else the stop event is cleared and a consumer thread is started
start_unguarded(ds, d) ==
    [ds EXCEPT ![d].stop = FALSE, ![d].thread = "alive", ![d].nthreads = @ + 1]
start(ds, d) ==
    IF ds[d].thread = "alive" THEN ds
    ELSE [ds EXCEPT ![d].stop = FALSE, ![d].thread = "alive", ![d].nthreads = @ + 1]

\* WaapiClient(...) raises: the outer handler runs next
NewClientFails(t) ==
    /\ th[t].pc = "new_client"
    /\ th' = [th EXCEPT ![t].pc = "fail", ![t].res = "client_failed"]
    /\ UNCHANGED <<reconnecting, client, dispatcher, nclient, cstate, disp, replyq, ncalls, lastConn, invoked, closes>>
    /\ UNCHANGED notSession

\* WaapiDispatcher.__init__: self._pq = _TimedPQ(), a queue of its own
NewQueue_inherited(t) == IF th[t].old_d = 0 THEN <<>> ELSE disp[th[t].old_d].pq
NewQueue(t) == <<>>

\* WaapiDispatcher(client=new_client) and start(): the consumer thread runs
NewDispatcherOk(t) ==
    /\ th[t].pc = "new_dispatcher"
    /\ disp' = start([disp EXCEPT ![th[t].new_c] = [NoDisp EXCEPT !.client = th[t].new_c,
                                                                   !.pq = NewQueue(t)]],
                      th[t].new_c)
    /\ th' = [th EXCEPT ![t].pc = "publish"]
    /\ UNCHANGED <<reconnecting, client, dispatcher, nclient, cstate, replyq, ncalls, lastConn, invoked, closes>>
    /\ UNCHANGED notSession

\* the dispatcher cannot be created or started: new_client.disconnect(), re-raise
CloseNewClient_skipped(t) == cstate
CloseNewClient(t) == [cstate EXCEPT ![th[t].new_c] = "closed"]

NewDispatcherFails(t) ==
    /\ th[t].pc = "new_dispatcher"
    /\ cstate' = CloseNewClient(t)
    /\ closes' = IF CloseNewClient(t) = cstate THEN closes ELSE Counted(th[t].new_c)
    /\ th' = [th EXCEPT ![t].pc = "fail", ![t].res = "dispatcher_failed"]
    /\ UNCHANGED <<reconnecting, client, dispatcher, nclient, disp, replyq, ncalls, lastConn, invoked>>
    /\ UNCHANGED notSession

\* Phase 4: `_reconnecting = False` together with the publication
PublishClearsFlag_forgotten == reconnecting
PublishClearsFlag == FALSE

\* Phase 4, under _lock
Publish(t) ==
    /\ th[t].pc = "publish"
    /\ ~LockHeld
    /\ client' = th[t].new_c
    /\ dispatcher' = th[t].new_c
    /\ reconnecting' = PublishClearsFlag
    /\ lastConn' = "ok"
    /\ th' = [th EXCEPT ![t] = Done(th[t], "ok")]
    /\ UNCHANGED <<nclient, cstate, disp, replyq, ncalls, invoked, closes>>
    /\ UNCHANGED notSession

\* the outer except, under _lock; the error is re-raised to the caller
FailureClearsFlag_forgotten == reconnecting
FailureClearsFlag == FALSE

ConnectFailed(t) ==
    /\ th[t].pc = "fail"
    /\ ~LockHeld
    /\ client' = 0
    /\ dispatcher' = 0
    /\ reconnecting' = FailureClearsFlag
    /\ lastConn' = th[t].res
    /\ th' = [th EXCEPT ![t] = Done(th[t], th[t].res)]
    /\ UNCHANGED <<nclient, cstate, disp, replyq, ncalls, invoked, closes>>
    /\ UNCHANGED notSession


\* -------------------------------------------- disconnect_from_wwise_client
\* the disconnects that have stopped one of the dispatchers 1..d
RECURSIVE Disconnects(_)
Disconnects(d) == IF d = 0 THEN 0 ELSE disp[d].ndisc + Disconnects(d - 1)

\* `with _lock: if _dispatcher: _dispatcher.stop() elif _client:
\* _client.disconnect()`.  The globals are left as they are.
DisconnectEnter(t) ==
    /\ th[t].pc = "idle"
    /\ ~LockHeld
    /\ dispatcher # 0 => Disconnects(MaxConn) < MaxDisc
    /\ LET me == [IdleThread EXCEPT !.op = "disconnect", !.old_d = dispatcher,
                                     !.old_c = client]
       IN IF dispatcher # 0
          THEN /\ th' = [th EXCEPT ![t] = [me EXCEPT !.pc = "stop_set"]]
               /\ UNCHANGED <<cstate, closes>>
          ELSE /\ th' = [th EXCEPT ![t] = Done(me, "ok")]
               /\ cstate' = Disconnected(client)
               /\ closes' = Counted(client)
    /\ UNCHANGED <<reconnecting, client, dispatcher, nclient, disp, replyq, ncalls, lastConn, invoked>>
    /\ UNCHANGED notSession

\* ------------------------------------- waapi_call / subscribe / unsubscribe
\* a thread starts an entry point: its locals
NewCall(t, op, ident, w, sub) ==
    [IdleThread EXCEPT !.op = op, !.as = ident, !.wait = w, !.sub = sub,
                       !.retry = (th[t].res = "reconnecting")]

\* waapi_call up to the dispatcher-thread check: the `with _lock` block and the
\* test of is_dispatcher_thread taken inside it
CallGate(t) ==
    /\ th[t].pc = "idle"
    /\ ~LockHeld
    /\ \E ident \in CallerThreads, w \in BOOLEAN :
          LET me == NewCall(t, "call", ident, w, 0)
              r  == IF SessionGate # "ok" THEN SessionGate
                    ELSE IF ~is_alive(dispatcher) THEN "not_running"
                    ELSE IF is_dispatcher_thread(dispatcher, ident) THEN "programmer_error"
                    ELSE "ok"
          IN /\ (SessionGate = "ok" /\ ident # dispatcher) => (ncalls < MaxCalls /\ nclient + ncalls < MaxOps)
             /\ th' = [th EXCEPT ![t] =
                    IF r = "ok"
                    THEN [me EXCEPT !.disp = dispatcher, !.pc = "enqueue"]
                    ELSE Done([me EXCEPT !.disp = IF SessionGate = "ok" THEN dispatcher
                                                 ELSE 0], r)]
    /\ UNCHANGED <<reconnecting, client, dispatcher, nclient, cstate, disp, replyq, ncalls, lastConn, invoked, closes>>
    /\ UNCHANGED notSession

\* waapi_subscribe / waapi_unsubscribe: the `with _lock` block
SubGate(t) ==
    /\ th[t].pc = "idle"
    /\ ~LockHeld
    /\ \E ident \in CallerThreads, op \in {"subscribe", "unsubscribe"}, sub \in 1..MaxCalls :
          /\ op = "subscribe" => sub = 1
          /\ (SessionGate = "ok" /\ ident # dispatcher) => (ncalls < MaxCalls /\ nclient + ncalls < MaxOps)
          /\ LET me == NewCall(t, op, ident, TRUE, IF op = "subscribe" THEN 0 ELSE sub)
             IN th' = [th EXCEPT ![t] =
                    IF SessionGate = "ok"
                    THEN [me EXCEPT !.disp = dispatcher, !.pc = "check"]
                    ELSE Done(me, SessionGate)]
    /\ UNCHANGED <<reconnecting, client, dispatcher, nclient, cstate, disp, replyq, ncalls, lastConn, invoked, closes>>
    /\ UNCHANGED notSession

\* waapi_subscribe / waapi_unsubscribe: is_alive and is_dispatcher_thread,
\* read after _lock was released
SubCheck(t) ==
    /\ th[t].pc = "check"
    /\ LET r == IF ~is_alive(th[t].disp) THEN "not_running"
                ELSE IF is_dispatcher_thread(th[t].disp, th[t].as) THEN "programmer_error"
                ELSE "ok"
       IN th' = [th EXCEPT ![t] = IF r = "ok" THEN [th[t] EXCEPT !.pc = "enqueue"]
                                    ELSE Done(th[t], r)]
    /\ UNCHANGED <<reconnecting, client, dispatcher, nclient, cstate, disp, replyq, ncalls, lastConn, invoked, closes>>
    /\ UNCHANGED notSession

\* dispatcher.enqueue / enqueue_subscribe / enqueue_unsubscribe: the request
\* and its reply_q are created, then _TimedPQ.put on the dispatcher captured
\* under _lock; due_at is the clock (ASAP), or the clock plus due_in for a
\* fire-and-forget waapi_call that is scheduled
DueIns(me) == IF me.op = "call" /\ ~me.wait THEN 0..MaxDueIn ELSE {0}

Enqueue(t) ==
    /\ th[t].pc = "enqueue"
    /\ disp[th[t].disp].cst # "checked"
    /\ ncalls < MaxCalls
    /\ nclient + ncalls < MaxOps
    /\ ncalls' = ncalls + 1
    /\ \E due_in \in DueIns(th[t]) :
       LET d == th[t].disp
           rid == ncalls + 1
           req == [due |-> now + due_in, seq |-> disp[d].seq, kind |-> th[t].op, rid |-> rid,
                   wait |-> th[t].wait, by |-> th[t].as, sub |-> th[t].sub,
                   entry |-> FALSE, scheduled |-> due_in > 0]
       IN IF QueueFull(disp[d].pq)
          THEN /\ th' = [th EXCEPT ![t] = Done(th[t], "queue_full")]
               /\ UNCHANGED disp
          ELSE /\ disp' = [disp EXCEPT ![d].pq = heappush(disp[d].pq, req),
                                       ![d].seq = NextSeq(disp[d].seq)]
               /\ th' = [th EXCEPT ![t] = IF th[t].wait
                                            THEN [th[t] EXCEPT !.pc = "waiting", !.rid = rid]
                                            ELSE Done(th[t], "enqueued")]
    /\ UNCHANGED <<reconnecting, client, dispatcher, nclient, cstate, replyq, lastConn, invoked, closes>>
    /\ UNCHANGED notSession

\* reply_q.get(timeout=timeout) returns the consumer's reply
WaitReply(t) ==
    /\ th[t].pc = "waiting"
    /\ replyq[th[t].rid] # NoReply
    /\ th' = [th EXCEPT ![t] = Done([th[t] EXCEPT !.got = replyq[th[t].rid].of],
                                     replyq[th[t].rid].st)]
    /\ replyq' = [replyq EXCEPT ![th[t].rid] = NoReply]
    /\ UNCHANGED <<reconnecting, client, dispatcher, nclient, cstate, disp, ncalls, lastConn, invoked, closes>>
    /\ UNCHANGED notSession

\* reply_q.get(timeout=timeout) raises queue.Empty: TimeoutError.  Nothing
\* is done about the request, which stays where it is
Abandon_cancels(d, rid) ==
    [disp EXCEPT ![d].pq = SelectSeq(disp[d].pq, LAMBDA q : q.rid # rid)]
Abandon(d, rid) == disp

WaitTimeout(t) ==
    /\ th[t].pc = "waiting"
    /\ replyq[th[t].rid] = NoReply
    /\ th' = [th EXCEPT ![t] = Done(th[t], "timeout")]
    /\ disp' = Abandon(th[t].disp, th[t].rid)
    /\ UNCHANGED <<reconnecting, client, dispatcher, nclient, cstate, replyq, ncalls, lastConn, invoked, closes>>
    /\ UNCHANGED notSession

\* ---------------------------------------------------- WaapiDispatcher._run
\* _run, kind "unsubscribe": self._subscriptions.pop(sub_id, None)
PopEntry(subs, req) == IF req.kind = "unsubscribe" THEN subs \ {req.sub} ELSE subs

\* _run and get_next_due, `while not stop_flag.is_set()`: the stop event is
\* read as clear, without any lock, and an iteration of get_next_due begins
\* under the queue's condition lock
ConsumerCheck(d) ==
    /\ disp[d].thread = "alive"
    /\ disp[d].cst = "idle"
    /\ ~Frozen(d)
    /\ ~disp[d].stop
    /\ disp' = [disp EXCEPT ![d].cst = "checked"]
    /\ UNCHANGED <<reconnecting, client, dispatcher, nclient, cstate, replyq, ncalls, th, lastConn, invoked, closes>>
    /\ UNCHANGED notSession

\* get_next_due waits on the condition for at most _QUEUE_CHECK_INTERVAL and
\* continues: the queue is empty or its head is not due
ConsumerWait(d) ==
    /\ disp[d].thread = "alive"
    /\ disp[d].cst = "checked"
    /\ IF disp[d].pq = <<>> THEN TRUE ELSE disp[d].pq[1].due > now
    /\ disp' = [disp EXCEPT ![d].cst = "idle"]
    /\ UNCHANGED <<reconnecting, client, dispatcher, nclient, cstate, replyq, ncalls, th, lastConn, invoked, closes>>
    /\ UNCHANGED notSession

\* get_next_due returns the head of the dispatcher's queue and _run goes up to
\* the RPC of the request; for an unsubscribe the entry is popped from the
\* registry on the way
ConsumerPop(d) ==
    /\ disp[d].thread = "alive"
    /\ disp[d].cst = "checked"
    /\ disp[d].pq # <<>>
    /\ disp[d].pq[1].due <= now
    /\ LET req == disp[d].pq[1]
           found == req.kind = "unsubscribe" /\ req.sub \in disp[d].subs
       IN disp' = [disp EXCEPT ![d].cur = [req EXCEPT !.entry = found],
                               ![d].pq = heappop(disp[d].pq),
                               ![d].subs = PopEntry(disp[d].subs, req),
                               ![d].cst = "busy"]
    /\ UNCHANGED <<reconnecting, client, dispatcher, nclient, cstate, replyq, ncalls, th, lastConn, invoked, closes>>
    /\ UNCHANGED notSession

\* the stop flag is set: get_next_due returns None and _run ends
ConsumerExit(d) ==
    /\ disp[d].thread = "alive"
    /\ disp[d].cst = "idle"
    /\ ~Frozen(d)
    /\ disp[d].stop
    /\ disp' = [disp EXCEPT ![d].thread = "dead", ![d].nthreads = @ - 1]
    /\ UNCHANGED <<reconnecting, client, dispatcher, nclient, cstate, replyq, ncalls, th, lastConn, invoked, closes>>
    /\ UNCHANGED notSession

\* the RPC of the dequeued request on self._client returns or raises, and the
\* reply goes to reply_q without blocking; after a subscribe that succeeded
\* the entry is still to be registered
ConsumerFinish(d) ==
    /\ disp[d].thread = "alive"
    /\ disp[d].cst = "busy"
    /\ ~Frozen(d)
    /\ LET req == disp[d].cur
           c   == disp[d].client
           usable == c # 0 /\ cstate[c] = "open"
       IN \E rpc \in {"ok", "err"} :
            /\ ~usable => rpc = "err"
            /\ LET known == req.entry
                   out == CASE req.kind = "subscribe" -> rpc
                            [] req.kind = "unsubscribe" ->
                                 IF known /\ c # 0 THEN (IF rpc = "ok" THEN "ok" ELSE "err")
                                 ELSE "false"
                            [] OTHER -> rpc
                   reached == c # 0 /\ (req.kind = "unsubscribe" => known)
                   toRegister == req.kind = "subscribe" /\ rpc = "ok"
               IN /\ disp' = IF toRegister THEN [disp EXCEPT ![d].cst = "register"]
                              ELSE [disp EXCEPT ![d].cst = "idle", ![d].cur = NoReq]
                  /\ replyq' = IF req.wait /\ ~toRegister
                                THEN ReplyPut(replyq, ReplySlot(req), [st |-> out, of |-> req.rid])
                                ELSE replyq
                  /\ invoked' = IF reached THEN invoked \cup {Invocation(req.kind, c, d)}
                                 ELSE invoked
    /\ UNCHANGED <<reconnecting, client, dispatcher, nclient, cstate, ncalls, th, lastConn, closes>>
    /\ UNCHANGED notSession

\* start is called once more on a dispatcher that is running
StartAgain(d) ==
    /\ disp[d].thread = "alive"
    /\ disp' = start(disp, d)
    /\ UNCHANGED <<reconnecting, client, dispatcher, nclient, cstate, replyq, ncalls, th, lastConn, invoked, closes>>
    /\ UNCHANGED notSession

\* _run, kind "subscribe", after client.subscribe returned the handler: the
\* entry is registered under _subscription_lock and the id is the reply
ConsumerRegister(d) ==
    /\ disp[d].thread = "alive"
    /\ disp[d].cst = "register"
    /\ LET req == disp[d].cur
       IN /\ disp' = [disp EXCEPT ![d].cst = "idle", ![d].cur = NoReq,
                                   ![d].subs = disp[d].subs \cup {req.rid}]
          /\ replyq' = IF req.wait
                        THEN ReplyPut(replyq, ReplySlot(req), [st |-> "ok", of |-> req.rid])
                        ELSE replyq
    /\ UNCHANGED <<reconnecting, client, dispatcher, nclient, cstate, ncalls, th, lastConn, invoked, closes>>
    /\ UNCHANGED notSession

InitSession ==
    /\ reconnecting = FALSE
    /\ client = 0
    /\ dispatcher = 0
    /\ nclient = 0
    /\ cstate = [c \in Conns |-> "none"]
    /\ disp = [d \in Conns |-> NoDisp]
    /\ replyq = [r \in 1..MaxCalls |-> NoReply]
    /\ ncalls = 0
    /\ th = [t \in Threads |-> IdleThread]
    /\ lastConn = "none"
    /\ invoked = {}
    /\ closes = [c \in Conns |-> 0]

NextSession ==
    \/ \E t \in Threads : ConnectEnter(t)
    \/ \E t \in Threads : StopSet(t)
    \/ \E t \in Threads : StopJoined(t)
    \/ \E t \in Threads : StopJoinTimeout(t)
    \/ \E t \in Threads : StopCleanup(t)
    \/ \E t \in Threads : OldClientDisconnect(t)
    \/ \E t \in Threads : NewClientOk(t)
    \/ \E t \in Threads : NewClientFails(t)
    \/ \E t \in Threads : NewDispatcherOk(t)
    \/ \E t \in Threads : NewDispatcherFails(t)
    \/ \E t \in Threads : Publish(t)
    \/ \E t \in Threads : ConnectFailed(t)
    \/ \E t \in Callers : CallGate(t)
    \/ \E t \in Callers : SubGate(t)
    \/ \E t \in Threads : SubCheck(t)
    \/ \E t \in Threads : Enqueue(t)
    \/ \E t \in Threads : WaitReply(t)
    \/ \E t \in Threads : WaitTimeout(t)
    \/ \E d \in Conns : ConsumerCheck(d)
    \/ \E d \in Conns : ConsumerWait(d)
    \/ \E d \in Conns : ConsumerPop(d)
    \/ \E d \in Conns : ConsumerExit(d)
    \/ \E d \in Conns : ConsumerFinish(d)
    \/ \E d \in Conns : ConsumerRegister(d)
    \/ \E d \in Conns : StartAgain(d)

\* the session with one thread that disconnects while the others connect and
\* call
NextDisconnect ==
    \/ \E t \in Disconnectors : DisconnectEnter(t)
    \/ \E t \in Others : ConnectEnter(t)
    \/ \E t \in Threads : StopSet(t)
    \/ \E t \in Threads : StopJoined(t)
    \/ \E t \in Threads : StopJoinTimeout(t)
    \/ \E t \in Threads : StopCleanup(t)
    \/ \E t \in Others : OldClientDisconnect(t)
    \/ \E t \in Others : NewClientOk(t)
    \/ \E t \in Others : NewClientFails(t)
    \/ \E t \in Others : NewDispatcherOk(t)
    \/ \E t \in Others : NewDispatcherFails(t)
    \/ \E t \in Others : Publish(t)
    \/ \E t \in Others : ConnectFailed(t)
    \/ \E t \in Others : CallGate(t)
    \/ \E t \in Others : SubGate(t)
    \/ \E t \in Others : SubCheck(t)
    \/ \E t \in Others : Enqueue(t)
    \/ \E t \in Others : WaitReply(t)
    \/ \E t \in Others : WaitTimeout(t)
    \/ \E d \in Conns : ConsumerCheck(d)
    \/ \E d \in Conns : ConsumerWait(d)
    \/ \E d \in Conns : ConsumerPop(d)
    \/ \E d \in Conns : ConsumerExit(d)
    \/ \E d \in Conns : ConsumerFinish(d)
    \/ \E d \in Conns : ConsumerRegister(d)
    \/ \E d \in Conns : StartAgain(d)


\* ============================================================ plan runner
\* wwise_mcp.py: execute_plan, _run_plan_sync, _plan_verbs, _run_one.
\* One verb stands for each kind of step the runner tells apart.

\* the verb registry, restricted to the verbs of the model
COMMANDS == {"connect_to_wwise", "project_save", "transport_get_list",
             "undo_begin_group", "undo_cancel_group", "undo_end_group"}

\* the verbs that trigger the undo wrap, restricted to the verbs of the model
PLAN_MODIFYING_COMMANDS == {"project_save"}

UndoVerbs == {"undo_begin_group", "undo_cancel_group", "undo_end_group"}

\* what a step of a plan can be: a registered verb, a verb that is not
\* registered, or a string that does not parse as a call
Steps == {"project_save", "transport_get_list", "undo_begin_group", "undo_cancel_group",
          "no_such_verb", "not_a_call"}

Plans == UNION {[1..n -> Steps] : n \in 0..MaxPlanLen}

\* _parse_call raises ValueError for a string that is not func(...)
ParseFails(step) == step = "not_a_call"

\* need_undo = any(v in PLAN_MODIFYING_COMMANDS for v in plan_verbs)
NeedUndo_always(p) == TRUE
NeedUndo(p) == \E i \in DOMAIN p : p[i] \in PLAN_MODIFYING_COMMANDS

Entry(c, st) == [command |-> c, status |-> st]

\* the verb _run_one is executing
CurVerb ==
    CASE runPc = "begin" -> "undo_begin_group"
      [] runPc = "steps" -> plan[stepIx]
      [] runPc = "end" -> "undo_end_group"
      [] OTHER -> "undo_cancel_group"

InCall == runPc \in {"begin", "steps", "cancel_step", "end", "cancel_end"}

\* what the argument of a step can be: a literal, or a string naming a variable
Refs == {"lit", "$last", "$nope"}

\* _resolve: a string that starts with "$" names the variable after the "$"
IsRef(val) == val \in {"$last", "$nope"}
Key(val) == IF val = "$last" THEN "last" ELSE "nope"

\* store[name] = value
Bind(s, name, value) == (name :> value) @@ s

\* _run_one: store["last"] = result.  The result of a call is named by the
\* place of the call among the invocations of _run_one
StoreLast_first_only(s, value) == IF "last" \in DOMAIN s THEN s ELSE Bind(s, "last", value)
StoreLast(s, value) == Bind(s, "last", value)

\* step.get("save_as") of the steps given in the structured form; a step
\* given as a string has save_as = None.  The steps of the model that carry a
\* save_as are those whose verb is an ordinary command
SaveNames == {"x", "last"}
SavesOf(step) ==
    IF step \in {"project_save", "transport_get_list"} THEN SaveNames \cup {"none"}
    ELSE {"none"}
SaveChoices(p) == {sv \in [DOMAIN p -> SaveNames \cup {"none"}] :
                      \A i \in DOMAIN p : sv[i] \in SavesOf(p[i])}

\* _run_one: `if save_as: store[save_as] = result`, after store["last"]
SaveAs_ignored(s, name, value) == s
SaveAs(s, name, value) == IF name # "none" THEN Bind(s, name, value) ELSE s

\* an exception, named by the phase and the step that raised it
NoExc == [in |-> "none", ix |-> 0]
Exc(phase) == [in |-> phase, ix |-> IF phase = "step" THEN stepIx ELSE 0]

\* the bare `raise` that ends an except block re-raises the exception the
\* block handles, whatever a nested try caught meanwhile
Reraise_inner(orig, inner) == IF inner = "raised" THEN Exc("cancel") ELSE orig
Reraise(orig, inner) == orig

NoResponse == [status |-> "none", steps_executed |-> 0, log |-> <<>>, error |-> NoExc]

\* execute_plan hands the plan to _run_plan_sync
execute_plan ==
    /\ runPc = "idle"
    /\ \E p \in Plans : \E r \in [DOMAIN p -> Refs] :
          /\ plan' = p
          /\ refs' = r
          /\ saves' \in SaveChoices(p)
    /\ runPc' = "connect"
    /\ UNCHANGED <<stepIx, log, store, need_undo, callSt, inflight, rpcLog, failedAt>>
    /\ UNCHANGED <<resolved, ran, raised, response>>
    /\ UNCHANGED notPlan

\* 0) _run_one("connect_to_wwise"): connect_to_waapi returns or raises
PlanConnect ==
    /\ runPc = "connect"
    /\ ran' = Append(ran, "connect_to_wwise")
    /\ \E ok \in BOOLEAN :
          IF ok
          THEN /\ log' = Append(log, Entry("connect_to_wwise", "ok"))
               /\ store' = StoreLast(store, Len(ran) + 1)
               /\ runPc' = "scan"
               /\ UNCHANGED <<failedAt, raised>>
          ELSE /\ log' = Append(log, Entry("connect_to_wwise", "error"))
               /\ runPc' = "raised"
               /\ failedAt' = "connect"
               /\ raised' = Exc("connect")
               /\ UNCHANGED store
    /\ UNCHANGED <<plan, stepIx, need_undo, callSt, inflight, rpcLog, refs, saves, resolved, response>>
    /\ UNCHANGED notPlan

\* 1) plan_verbs = _plan_verbs(plan); need_undo = any(...).  _plan_verbs parses
\* every step outside any try block
PlanScan ==
    /\ runPc = "scan"
    /\ IF \E i \in DOMAIN plan : ParseFails(plan[i])
       THEN /\ runPc' = "raised"
            /\ failedAt' = "scan"
            /\ raised' = Exc("scan")
            /\ UNCHANGED <<need_undo, stepIx>>
       ELSE /\ need_undo' = NeedUndo(plan)
            /\ stepIx' = 1
            /\ runPc' = IF NeedUndo(plan) THEN "begin"
                         ELSE IF plan = <<>> THEN "returned" ELSE "steps"
            /\ UNCHANGED <<failedAt, raised>>
    /\ UNCHANGED <<plan, log, store, callSt, inflight, rpcLog, refs, saves, resolved, ran, response>>
    /\ UNCHANGED notPlan

\* the arguments of the step the loop is at cannot be resolved: _parse_call
\* raises, or _resolve raises KeyError for a variable that is not in store
ResolveFails ==
    /\ runPc = "steps"
    /\ \/ ParseFails(plan[stepIx])
       \/ (IsRef(refs[stepIx]) /\ Key(refs[stepIx]) \notin DOMAIN store)

\* a step: _parse_call and _resolve, then _run_one up to the request being
\* queued.  An unknown verb raises ValueError; the command's waapi_call is
\* refused at its gate (not connected, reconnecting, dispatcher not running,
\* queue full) or enqueues its request
RunOneStart ==
    /\ InCall
    /\ callSt = "none"
    /\ IF ResolveFails
       THEN /\ callSt' = "raised"
            /\ UNCHANGED <<inflight, resolved, ran>>
       ELSE /\ resolved' = IF runPc = "steps" /\ IsRef(refs[stepIx])
                           THEN Bind(resolved, stepIx, store[Key(refs[stepIx])])
                           ELSE resolved
            /\ ran' = Append(ran, CurVerb)
            /\ IF CurVerb \notin COMMANDS
               THEN /\ callSt' = "raised"
                    /\ UNCHANGED inflight
               ELSE \E accepted \in BOOLEAN :
                      IF accepted
                      THEN /\ inflight' = Append(inflight, [uri |-> CurVerb, live |-> TRUE])
                           /\ callSt' = "waiting"
                      ELSE /\ callSt' = "raised"
                           /\ UNCHANGED inflight
    /\ UNCHANGED <<plan, runPc, stepIx, log, store, need_undo, rpcLog, failedAt>>
    /\ UNCHANGED <<refs, saves, raised, response>>
    /\ UNCHANGED notPlan

\* WaapiDispatcher._run takes the oldest request (all are ASAP) and performs
\* the RPC; the reply reaches the waiter if it still waits
PlanDispatch ==
    /\ inflight # <<>>
    /\ \E ok \in BOOLEAN :
          /\ rpcLog' = Append(rpcLog, [uri |-> Head(inflight).uri, ok |-> ok])
          /\ callSt' = IF Head(inflight).live THEN (IF ok THEN "ok" ELSE "raised")
                        ELSE callSt
    /\ inflight' = Tail(inflight)
    /\ UNCHANGED <<plan, runPc, stepIx, log, store, need_undo, failedAt>>
    /\ UNCHANGED <<refs, saves, resolved, ran, raised, response>>
    /\ UNCHANGED notPlan

\* reply_q.get(timeout=_DEFAULT_TIMEOUT) raises queue.Empty: TimeoutError; the
\* request stays with the dispatcher
PlanWaitTimeout ==
    /\ callSt = "waiting"
    /\ callSt' = "raised"
    /\ inflight' = [i \in DOMAIN inflight |-> [inflight[i] EXCEPT !.live = FALSE]]
    /\ UNCHANGED <<plan, runPc, stepIx, log, store, need_undo, rpcLog, failedAt>>
    /\ UNCHANGED <<refs, saves, resolved, ran, raised, response>>
    /\ UNCHANGED notPlan

\* 1a) the handler of a failed undo_begin_group logs the error and re-raises
AfterBeginFailure_goes_on == "steps"
AfterBeginFailure == "raised"

\* 1a) undo_begin_group returned or raised
BeginDone ==
    /\ runPc = "begin"
    /\ callSt \in {"ok", "raised"}
    /\ IF callSt = "ok"
       THEN /\ log' = Append(log, Entry("undo_begin_group", "ok"))
            /\ store' = StoreLast(store, Len(ran))
            /\ runPc' = "steps"
            /\ UNCHANGED <<failedAt, raised>>
       ELSE /\ log' = Append(log, Entry("undo_begin_group", "error"))
            /\ runPc' = AfterBeginFailure
            /\ failedAt' = "begin"
            /\ raised' = Exc("begin")
            /\ UNCHANGED store
    /\ callSt' = "none"
    /\ UNCHANGED <<plan, stepIx, need_undo, inflight, rpcLog, refs, saves, resolved, ran, response>>
    /\ UNCHANGED notPlan

\* 2) one iteration of the loop ended: the step is logged and the loop goes
\* on, or the step raised and the except block is entered
StepDone ==
    /\ runPc = "steps"
    /\ callSt \in {"ok", "raised"}
    /\ IF callSt = "ok"
       THEN /\ log' = Append(log, Entry(plan[stepIx], "ok"))
            /\ store' = SaveAs(StoreLast(store, Len(ran)), saves[stepIx], Len(ran))
            /\ stepIx' = stepIx + 1
            /\ runPc' = IF stepIx < Len(plan) THEN "steps"
                         ELSE IF need_undo THEN "end" ELSE "returned"
            /\ UNCHANGED <<failedAt, raised>>
       ELSE /\ runPc' = IF need_undo THEN "cancel_step" ELSE "raised"
            /\ failedAt' = "step"
            /\ raised' = IF need_undo THEN raised ELSE Exc("step")
            /\ UNCHANGED <<log, store, stepIx>>
    /\ callSt' = "none"
    /\ UNCHANGED <<plan, need_undo, inflight, rpcLog, refs, saves, resolved, ran, response>>
    /\ UNCHANGED notPlan

\* 3a) undo_cancel_group after a failed step: logged either way, then re-raise
CancelStepDone ==
    /\ runPc = "cancel_step"
    /\ callSt \in {"ok", "raised"}
    /\ IF callSt = "ok"
       THEN /\ log' = Append(log, Entry("undo_cancel_group", "ok"))
            /\ store' = StoreLast(store, Len(ran))
       ELSE /\ log' = Append(log, Entry("undo_cancel_group", "error"))
            /\ UNCHANGED store
    /\ raised' = Reraise(Exc("step"), callSt)
    /\ runPc' = "raised"
    /\ callSt' = "none"
    /\ UNCHANGED <<plan, stepIx, need_undo, inflight, rpcLog, failedAt>>
    /\ UNCHANGED <<refs, saves, resolved, ran, response>>
    /\ UNCHANGED notPlan

\* 3b) the handler of a failed undo_end_group runs undo_cancel_group before
\* it re-raises
AfterEndFailure_reraise == "raised"
AfterEndFailure == "cancel_end"

\* 3b) undo_end_group returned or raised
EndDone ==
    /\ runPc = "end"
    /\ callSt \in {"ok", "raised"}
    /\ IF callSt = "ok"
       THEN /\ log' = Append(log, Entry("undo_end_group", "ok"))
            /\ store' = StoreLast(store, Len(ran))
            /\ runPc' = "returned"
            /\ UNCHANGED failedAt
       ELSE /\ runPc' = AfterEndFailure
            /\ failedAt' = "end"
            /\ UNCHANGED <<log, store>>
    /\ callSt' = "none"
    /\ UNCHANGED <<plan, stepIx, need_undo, inflight, rpcLog>>
    /\ UNCHANGED <<refs, saves, resolved, ran, raised, response>>
    /\ UNCHANGED notPlan

\* 3b) undo_cancel_group after undo_end_group failed: logged when it returns,
\* passed over when it raises; then the end-group error is logged and raised
CancelEndDone ==
    /\ runPc = "cancel_end"
    /\ callSt \in {"ok", "raised"}
    /\ IF callSt = "ok"
       THEN /\ log' = log \o <<Entry("undo_cancel_group", "after undo_end_group failure"),
                                Entry("undo_end_group", "error")>>
            /\ store' = StoreLast(store, Len(ran))
       ELSE /\ log' = Append(log, Entry("undo_end_group", "error"))
            /\ UNCHANGED store
    /\ raised' = Reraise(Exc("end"), callSt)
    /\ runPc' = "raised"
    /\ callSt' = "none"
    /\ UNCHANGED <<plan, stepIx, need_undo, inflight, rpcLog, failedAt>>
    /\ UNCHANGED <<refs, saves, resolved, ran, response>>
    /\ UNCHANGED notPlan

\* execute_plan after _run_plan_sync: the log is wrapped into the result, or
\* the exception passes through and the log, a local of _run_plan_sync, is gone
ExecutePlanDone ==
    /\ runPc \in {"returned", "raised"}
    /\ response = NoResponse
    /\ response' = IF runPc = "returned"
                   THEN [status |-> "ok", steps_executed |-> Len(log), log |-> log,
                         error |-> NoExc]
                   ELSE [status |-> "error", steps_executed |-> 0, log |-> <<>>,
                         error |-> raised]
    /\ UNCHANGED <<plan, runPc, stepIx, log, store, need_undo, callSt, inflight, rpcLog,
                   failedAt, refs, saves, resolved, ran, raised>>
    /\ UNCHANGED notPlan

\* after the plan a later connect_to_waapi stops the dispatcher: its consumer
\* leaves the loop and the requests still queued are never executed
LaterConnect ==
    /\ runPc \in {"returned", "raised"}
    /\ inflight # <<>>
    /\ inflight' = <<>>
    /\ UNCHANGED <<plan, runPc, stepIx, log, store, need_undo, callSt, rpcLog, failedAt>>
    /\ UNCHANGED <<refs, saves, resolved, ran, raised, response>>
    /\ UNCHANGED notPlan

InitPlan ==
    /\ plan = <<>>
    /\ runPc = "idle"
    /\ stepIx = 0
    /\ log = <<>>
    /\ store = <<>>
    /\ need_undo = FALSE
    /\ callSt = "none"
    /\ inflight = <<>>
    /\ rpcLog = <<>>
    /\ failedAt = "none"
    /\ refs = <<>>
    /\ saves = <<>>
    /\ resolved = <<>>
    /\ ran = <<>>
    /\ raised = NoExc
    /\ response = NoResponse

NextPlan ==
    \/ execute_plan
    \/ PlanConnect
    \/ PlanScan
    \/ RunOneStart
    \/ PlanDispatch
    \/ PlanWaitTimeout
    \/ BeginDone
    \/ StepDone
    \/ CancelStepDone
    \/ EndDone
    \/ CancelEndDone
    \/ ExecutePlanDone
    \/ LaterConnect


\* ================================================== subscription buffers
\* wwise_session.py: the subscription registry of one dispatcher, the event_q
\* of each subscription, the _on_event callbacks and get_subscription_events.
SubIds == 1..MaxSubs

\* queue.Queue(): maxsize 0, and queue.Queue.full() is 0 < maxsize <= qsize
event_q_maxsize == 0
QueueIsFull(q, maxsize) == 0 < maxsize /\ maxsize <= Len(q)

\* limit = max_count if max_count is not None else (1 << 31); no buffer of
\* the model reaches 1 << 31 events, so len(events) < limit is true without
\* a max_count
UnderLimit(n, d) == d.given => n < d.max_count

NoDrain == [pc |-> "idle", id |-> 0, clear |-> TRUE, given |-> FALSE, max_count |-> 0,
            known |-> FALSE,
            events |-> <<>>, before |-> <<>>]
NoLastDrain == [done |-> FALSE, id |-> 0, clear |-> TRUE, given |-> FALSE, max_count |-> 0,
                known |-> FALSE,
                events |-> <<>>, before |-> <<>>, after |-> <<>>]

\* _run, kind "subscribe": the event_q is created, client.subscribe returns
\* the handler and the entry is registered under a fresh id
Subscribe ==
    /\ nsub < MaxSubs
    /\ nsub' = nsub + 1
    /\ subscriptions' = subscriptions \cup {nsub + 1}
    /\ event_q' = [event_q EXCEPT ![nsub + 1] = <<>>]
    /\ UNCHANGED <<nev, drain, lastDrain>>
    /\ UNCHANGED notEvents

\* _on_event of a registered subscription: event_q.put(payload, block=False),
\* queue.Full is passed over
on_event(s) ==
    /\ s \in subscriptions
    /\ nev < MaxEvents
    /\ nev' = nev + 1
    /\ event_q' = IF QueueIsFull(event_q[s], event_q_maxsize) THEN event_q
                   ELSE [event_q EXCEPT ![s] = Append(event_q[s], nev + 1)]
    /\ UNCHANGED <<subscriptions, nsub, drain, lastDrain>>
    /\ UNCHANGED notEvents

\* _run, kind "unsubscribe": the entry is popped from the registry
Unsubscribe(s) ==
    /\ s \in subscriptions
    /\ subscriptions' = subscriptions \ {s}
    /\ UNCHANGED <<event_q, nsub, nev, drain, lastDrain>>
    /\ UNCHANGED notEvents

\* WaapiDispatcher.stop: self._subscriptions.clear()
StopClear ==
    /\ subscriptions # {}
    /\ subscriptions' = {}
    /\ UNCHANGED <<event_q, nsub, nev, drain, lastDrain>>
    /\ UNCHANGED notEvents

\* get_subscription_events: the lookup under _subscription_lock
DrainStart ==
    /\ drain.pc = "idle"
    /\ \E id \in SubIds, given \in BOOLEAN, max_count \in 0..MaxCount, clear \in BOOLEAN :
          /\ ~given => max_count = 0
          /\ drain' = [pc |-> "loop", id |-> id, clear |-> clear,
                        given |-> given, max_count |-> max_count,
                        known |-> id \in subscriptions,
                        events |-> <<>>,
                        before |-> IF id \in subscriptions THEN event_q[id] ELSE <<>>]
    /\ UNCHANGED <<subscriptions, event_q, nsub, nev, lastDrain>>
    /\ UNCHANGED notEvents

\* get_subscription_events: one event_q.get_nowait() of the loop
DrainGet ==
    /\ drain.pc = "loop"
    /\ drain.known
    /\ UnderLimit(Len(drain.events), drain)
    /\ event_q[drain.id] # <<>>
    /\ drain' = [drain EXCEPT !.events = Append(@, Head(event_q[drain.id]))]
    /\ event_q' = [event_q EXCEPT ![drain.id] = Tail(@)]
    /\ UNCHANGED <<subscriptions, nsub, nev, lastDrain>>
    /\ UNCHANGED notEvents

\* get_subscription_events returns: the id was unknown, the limit is reached
\* or get_nowait raised queue.Empty
DrainEnd ==
    /\ drain.pc = "loop"
    /\ \/ ~drain.known
       \/ ~UnderLimit(Len(drain.events), drain)
       \/ event_q[drain.id] = <<>>
    /\ lastDrain' = [done |-> TRUE, id |-> drain.id, clear |-> drain.clear,
                      given |-> drain.given, max_count |-> drain.max_count,
                      known |-> drain.known,
                      events |-> drain.events, before |-> drain.before,
                      after |-> IF drain.known THEN event_q[drain.id] ELSE <<>>]
    /\ drain' = NoDrain
    /\ UNCHANGED <<subscriptions, event_q, nsub, nev>>
    /\ UNCHANGED notEvents

InitEvents ==
    /\ subscriptions = {}
    /\ event_q = [s \in SubIds |-> <<>>]
    /\ nsub = 0
    /\ nev = 0
    /\ drain = NoDrain
    /\ lastDrain = NoLastDrain

NextEvents ==
    \/ Subscribe
    \/ \E s \in SubIds : on_event(s)
    \/ \E s \in SubIds : Unsubscribe(s)
    \/ StopClear
    \/ DrainStart
    \/ DrainGet
    \/ DrainEnd


\* ========================================================= specifications
\* ================================================================== locks
\* wwise_session.py: _lock (37), _TimedPQ._cv (314) and
\* WaapiDispatcher._subscription_lock (371), and the order in which each
\* function acquires and releases them
Locks == {"_lock", "_cv", "_subscription_lock"}

\* the threads of the application and the dispatcher's consumer thread
ConsumerThread == 3
LockThreads == Threads \cup {ConsumerThread}

Acquire(l) == [do |-> "acquire", lock |-> l]
Release(l) == [do |-> "release", lock |-> l]

\* `with _lock:` around reads and writes of the module globals only
with_lock == <<Acquire("_lock"), Release("_lock")>>

\* _TimedPQ.put: `with self._cv:`
put_locks == <<Acquire("_cv"), Release("_cv")>>

\* WaapiDispatcher.stop: `with self._subscription_lock:` around the clear
stop_locks == <<Acquire("_subscription_lock"), Release("_subscription_lock")>>

\* WaapiDispatcher.get_subscription_events
get_subscription_events_locks_reversed ==
    <<Acquire("_subscription_lock"), Acquire("_lock"), Release("_lock"),
      Release("_subscription_lock")>>
get_subscription_events_locks ==
    <<Acquire("_subscription_lock"), Release("_subscription_lock")>>

\* waapi_call: the gate under _lock, then enqueue after _lock was released
waapi_call_locks_nested ==
    <<Acquire("_lock"), Acquire("_cv"), Release("_cv"), Release("_lock")>>
waapi_call_locks == with_lock \o put_locks

\* _TimedPQ.get_next_due: `with self._cv:`; a wait releases the mutex and
\* takes it again
get_next_due_locks == <<Acquire("_cv"), Release("_cv")>>
get_next_due_wait_locks ==
    <<Acquire("_cv"), Release("_cv"), Acquire("_cv"), Release("_cv")>>

\* _run, kind "subscribe": the callback _on_event only puts the payload into
\* the event queue of its subscription
_on_event_locks == <<>>

\* the functions called by application threads, and the subscription callback
AppOps == {"waapi_call", "waapi_subscribe", "waapi_unsubscribe",
           "waapi_subscription_events", "connect_to_waapi",
           "disconnect_from_wwise_client", "rejected", "_on_event"}

\* the branches of WaapiDispatcher._run, one iteration each
ConsumerOps == {"_run_call", "_run_subscribe", "_run_unsubscribe", "_run_wait"}

\* the lock operations of one invocation, in program order
LockScript(op) ==
    CASE op = "waapi_call" -> waapi_call_locks
      [] op = "waapi_subscribe" -> with_lock \o put_locks
      [] op = "waapi_unsubscribe" -> with_lock \o put_locks
      [] op = "waapi_subscription_events" ->
             with_lock \o get_subscription_events_locks
      \* phase 1, old_dispatcher.stop(), then the publish or the except
      [] op = "connect_to_waapi" -> with_lock \o stop_locks \o with_lock
      \* `with _lock: _dispatcher.stop()`
      [] op = "disconnect_from_wwise_client" ->
             <<Acquire("_lock")>> \o stop_locks \o <<Release("_lock")>>
      \* a gate that raises: reconnecting, not connected, dispatcher dead
      [] op = "rejected" -> with_lock
      [] op = "_on_event" -> _on_event_locks
      [] op = "_run_call" -> get_next_due_locks
      \* `with self._subscription_lock:` at 512 and at 534
      [] op = "_run_subscribe" ->
             get_next_due_locks \o
             <<Acquire("_subscription_lock"), Release("_subscription_lock")>>
      [] op = "_run_unsubscribe" ->
             get_next_due_locks \o
             <<Acquire("_subscription_lock"), Release("_subscription_lock")>>
      [] op = "_run_wait" -> get_next_due_wait_locks

OpsOf(t) == IF t = ConsumerThread THEN ConsumerOps ELSE AppOps

NoLockOp == [op |-> "none", i |-> 0]

\* a thread enters a function
LockBegin(t) ==
    /\ lockpc[t] = NoLockOp
    /\ \E op \in OpsOf(t) : lockpc' = [lockpc EXCEPT ![t] = [op |-> op, i |-> 1]]
    /\ UNCHANGED lockOwner
    /\ UNCHANGED notLocks

\* the next operation of the thread is an acquire and the mutex is free
LockAcquire(t) ==
    /\ lockpc[t] # NoLockOp
    /\ lockpc[t].i <= Len(LockScript(lockpc[t].op))
    /\ LET step == LockScript(lockpc[t].op)[lockpc[t].i]
       IN /\ step.do = "acquire"
          /\ lockOwner[step.lock] = 0
          /\ lockOwner' = [lockOwner EXCEPT ![step.lock] = t]
    /\ lockpc' = [lockpc EXCEPT ![t].i = @ + 1]
    /\ UNCHANGED notLocks

\* the next operation of the thread is a release
LockRelease(t) ==
    /\ lockpc[t] # NoLockOp
    /\ lockpc[t].i <= Len(LockScript(lockpc[t].op))
    /\ LET step == LockScript(lockpc[t].op)[lockpc[t].i]
       IN /\ step.do = "release"
          /\ lockOwner' = [lockOwner EXCEPT ![step.lock] = 0]
    /\ lockpc' = [lockpc EXCEPT ![t].i = @ + 1]
    /\ UNCHANGED notLocks

\* the function returns
LockEnd(t) ==
    /\ lockpc[t] # NoLockOp
    /\ lockpc[t].i > Len(LockScript(lockpc[t].op))
    /\ lockpc' = [lockpc EXCEPT ![t] = NoLockOp]
    /\ UNCHANGED lockOwner
    /\ UNCHANGED notLocks

InitLocks ==
    /\ lockOwner = [l \in Locks |-> 0]
    /\ lockpc = [t \in LockThreads |-> NoLockOp]

NextLocks ==
    \/ \E t \in LockThreads : LockBegin(t)
    \/ \E t \in LockThreads : LockAcquire(t)
    \/ \E t \in LockThreads : LockRelease(t)
    \/ \E t \in LockThreads : LockEnd(t)

\* ====================================================== variable resolver
\* wwise_mcp.py: _extract_attr and _resolve.  A Python value is a record:
\* its type, its characters (str, int, exception name) and its items (the
\* entries of a list; the key/value pairs of a dict, in insertion order).
NoneValue == [t |-> "none", s |-> <<>>, items |-> <<>>]
IntValue(digit) == [t |-> "int", s |-> <<digit>>, items |-> <<>>]
StrValue(chars) == [t |-> "str", s |-> chars, items |-> <<>>]
ListValue(entries) == [t |-> "list", s |-> <<>>, items |-> entries]
DictValue(pairs) == [t |-> "dict", s |-> <<>>, items |-> pairs]
Raises(exc) == [t |-> "raise", s |-> <<exc>>, items |-> <<>>]
Pair(key, value) == [k |-> key, e |-> value]

\* `attr in d` and d[attr] on the pairs of a dict
HasKey(pairs, key) == \E i \in DOMAIN pairs : pairs[i].k = key
GetItem(pairs, key) == pairs[CHOOSE i \in DOMAIN pairs : pairs[i].k = key].e

\* str.split(".", 1): the part before the first "." and, when there is one,
\* everything after it
RECURSIVE Find(_, _, _)
Find(chars, c, i) ==
    IF i > Len(chars) THEN 0 ELSE IF chars[i] = c THEN i ELSE Find(chars, c, i + 1)

split_1(chars) ==
    LET d == Find(chars, ".", 1)
    IN IF d = 0 THEN <<chars>>
       ELSE <<SubSeq(chars, 1, d - 1), SubSeq(chars, d + 1, Len(chars))>>

\* [d[attr] for d in obj if isinstance(d, dict) and attr in d]
RECURSIVE ExtractEach(_, _, _, _)
ExtractEach(entries, attr, i, acc) ==
    IF i > Len(entries) THEN acc
    ELSE LET d == entries[i]
         IN ExtractEach(entries, attr, i + 1,
                        IF d.t = "dict" /\ HasKey(d.items, attr)
                        THEN Append(acc, GetItem(d.items, attr)) ELSE acc)

\* _extract_attr(obj, attr): a list, a dict (dict.get), or getattr, which
\* raises AttributeError on the values of the model
_extract_attr(obj, attr) ==
    IF obj.t = "list" THEN ListValue(ExtractEach(obj.items, attr, 1, <<>>))
    ELSE IF obj.t = "dict"
    THEN (IF HasKey(obj.items, attr) THEN GetItem(obj.items, attr) ELSE NoneValue)
    ELSE Raises("AttributeError")

\* isinstance(val, str) and val.startswith("$")
IsVar_never(val) == FALSE
IsVar(val) == val.t = "str" /\ Len(val.s) > 0 /\ val.s[1] = "$"

\* _resolve(val, store); the comprehensions stop at the first item that raises
RECURSIVE _resolve(_, _)
RECURSIVE ResolveEach(_, _, _, _)
RECURSIVE ResolveValues(_, _, _, _)
_resolve(val, store_) ==
    IF IsVar(val)
    THEN LET parts == split_1(Tail(val.s))
             key == parts[1]
         IN IF ~HasKey(store_, key) THEN Raises("KeyError")
            ELSE IF Len(parts) > 1 THEN _extract_attr(GetItem(store_, key), parts[2])
            ELSE GetItem(store_, key)
    ELSE IF val.t = "list" THEN ResolveEach(val.items, store_, 1, <<>>)
    ELSE IF val.t = "dict" THEN ResolveValues(val.items, store_, 1, <<>>)
    ELSE val

\* [_resolve(v, store) for v in val]
ResolveEach(entries, store_, i, acc) ==
    IF i > Len(entries) THEN ListValue(acc)
    ELSE LET r == _resolve(entries[i], store_)
         IN IF r.t = "raise" THEN r ELSE ResolveEach(entries, store_, i + 1, Append(acc, r))

\* {k: _resolve(v, store) for k, v in val.items()}
ResolveValues(pairs, store_, i, acc) ==
    IF i > Len(pairs) THEN DictValue(acc)
    ELSE LET r == _resolve(pairs[i].e, store_)
         IN IF r.t = "raise" THEN r
            ELSE ResolveValues(pairs, store_, i + 1, Append(acc, Pair(pairs[i].k, r)))

\* the names and fields of the model, and the strings that refer to them
Names == {<<"a">>, <<"b">>}
Fields == {<<"f">>, <<"g">>}
VarStr(name) == <<"$">> \o name
FieldStr(name, field) == <<"$">> \o name \o <<".">> \o field

\* all sequences of at most n members of S
SeqsUpTo(S, n) == UNION {[1..m -> S] : m \in 0..n}

\* what a plan can bind: results of commands
BoundEntries == {DictValue(<<Pair(<<"f">>, IntValue("1"))>>),
                 DictValue(<<Pair(<<"g">>, IntValue("2")), Pair(<<"f">>, IntValue("3"))>>),
                 IntValue("2")}
Bindings == {IntValue("1"), StrValue(VarStr(<<"a">>)), NoneValue}
                \cup BoundEntries
                \cup {ListValue(l) : l \in SeqsUpTo(BoundEntries, MaxItems)}
Stores == {<<>>} \cup {<<Pair(<<"a">>, x)>> : x \in Bindings}
              \cup {<<Pair(<<"a">>, x), Pair(<<"b">>, IntValue("1"))>> : x \in Bindings}

\* what an argument of a step can be
Leaves == {StrValue(VarStr(<<"a">>)), StrValue(VarStr(<<"b">>)),
           StrValue(FieldStr(<<"a">>, <<"f">>)), StrValue(FieldStr(<<"a">>, <<"g">>)),
           StrValue(<<"a">>), IntValue("1")}
Nested == {ListValue(<<x>>) : x \in Leaves}
              \cup {DictValue(<<Pair(<<"f">>, x)>>) : x \in Leaves}
Arguments == Leaves \cup Nested
                 \cup {ListValue(l) : l \in SeqsUpTo(Leaves \cup Nested, MaxItems)}
                 \cup {DictValue(<<Pair(<<"f">>, x), Pair(<<"g">>, y)>>) :
                           x \in Leaves \cup Nested, y \in Leaves}

\* _resolve is called on an argument with the store of the plan
resolve_call ==
    /\ rstep = "idle"
    /\ rstep' = "called"
    /\ rval' \in Arguments
    /\ rstore' \in Stores
    /\ UNCHANGED rres
    /\ UNCHANGED notResolve

\* it returns or raises
resolve_return ==
    /\ rstep = "called"
    /\ rstep' = "returned"
    /\ rres' = _resolve(rval, rstore)
    /\ UNCHANGED <<rval, rstore>>
    /\ UNCHANGED notResolve

InitResolve ==
    /\ rstep = "idle"
    /\ rval = NoneValue
    /\ rstore = <<>>
    /\ rres = NoneValue

NextResolve ==
    \/ resolve_call
    \/ resolve_return

vars == <<pqVars, sessVars, planVars, evVars, lockVars, resVars>>

Init == InitPQ /\ InitSession /\ InitPlan /\ InitEvents /\ InitLocks /\ InitResolve

SpecResolve == Init /\ [][NextResolve]_vars

SpecLocks == Init /\ [][NextLocks]_vars

SpecEvents == Init /\ [][NextEvents]_vars

SpecDisconnect == Init /\ [][NextDisconnect]_vars

SpecPlan == Init /\ [][NextPlan]_vars

SpecPQ == Init /\ [][NextPQ]_vars

\* the consumer is a running thread: each step of its loop that is enabled is
\* eventually taken
ConsumerFairness ==
    /\ WF_vars(get_next_due_check)
    /\ WF_vars(get_next_due)
    /\ WF_vars(get_next_due_wait)
    /\ WF_vars(get_next_due_stopped)

SpecPQFair == Init /\ [][NextPQStop]_vars /\ ConsumerFairness

SpecSession == Init /\ [][NextSession]_vars

\* one thread reconnects while another calls waapi_call and the clock
\* advances, so that scheduled requests come due
Reconnectors == {1}

NextReplace ==
    \/ \E t \in Reconnectors : ConnectEnter(t)
    \/ \E t \in Threads : StopSet(t)
    \/ \E t \in Threads : StopJoined(t)
    \/ \E t \in Threads : StopJoinTimeout(t)
    \/ \E t \in Threads : StopCleanup(t)
    \/ \E t \in Threads : OldClientDisconnect(t)
    \/ \E t \in Threads : NewClientOk(t)
    \/ \E t \in Threads : NewClientFails(t)
    \/ \E t \in Threads : NewDispatcherOk(t)
    \/ \E t \in Threads : NewDispatcherFails(t)
    \/ \E t \in Threads : Publish(t)
    \/ \E t \in Threads : ConnectFailed(t)
    \/ \E t \in Callers : CallGate(t)
    \/ \E t \in Threads : Enqueue(t)
    \/ \E t \in Threads : WaitReply(t)
    \/ \E t \in Threads : WaitTimeout(t)
    \/ \E d \in Conns : ConsumerCheck(d)
    \/ \E d \in Conns : ConsumerWait(d)
    \/ \E d \in Conns : ConsumerPop(d)
    \/ \E d \in Conns : ConsumerExit(d)
    \/ \E d \in Conns : ConsumerFinish(d)
    \/ Tick

SpecReplace == Init /\ [][NextReplace]_vars

\* ------------------------------------------------------------ queue claims
Range(f) == {f[i] : i \in DOMAIN f}

\* C1: the queue never holds more than max_size requests, and a put issued
\* while it holds max_size raises WaapiQueueFullError(queue_size = max_size,
\* max_size) and changes neither the heap nor the sequence counter.
C1_BoundedPut ==
    /\ [](Len(pq) <= MaxSize)
    /\ [][\A p \in Producers :
            (ppc[p] = "stamped" /\ ppc'[p] = "idle" /\ Len(pq) = MaxSize)
            => /\ putRes'[p] = [kind |-> "full", queue_size |-> MaxSize, max_size |-> MaxSize]
               /\ pq' = pq
               /\ seqc' = seqc]_vars

\* a put was refused on a full queue
C1_Witness == \E p \in Producers : putRes[p].kind = "full" /\ Len(pq) = MaxSize

\* C2: requests are dispatched in (due_at, seq) order: no request is
\* dispatched after one with a larger key.
C2_DispatchedInDueOrder ==
    \A i, j \in 1..Len(popped) : i < j => ~TupleLt(popped[j], popped[i])

\* C3: successive accepted puts are given strictly increasing seq values, and
\* two requests with equal due_at are dispatched in the order put accepted them.
C3_SeqFifo ==
    /\ \A x, y \in Range(pq) \cup Range(popped) : x.ord < y.ord => x.seq < y.seq
    /\ \A i, j \in 1..Len(popped) :
          (i < j /\ popped[i].due = popped[j].due) => popped[i].ord < popped[j].ord

\* two requests with the same due_at were both dispatched
C3_Witness ==
    \E i, j \in 1..Len(popped) : i < j /\ popped[i].due = popped[j].due

\* ---------------------------------------------------------- session claims
\* the threads that are inside connect_to_waapi past the reconnecting check
Connecting == {t \in Threads : th[t].op = "connect" /\ th[t].pc # "idle"}

\* every request a dispatcher holds, queued or being executed
Held(d) ==
    Range(disp[d].pq) \cup (IF disp[d].cst \in {"busy", "register"} THEN {disp[d].cur} ELSE {})

C5_ExactlyOneAlive ==
    (Connecting = {} /\ lastConn = "ok")
    => {d \in Conns : disp[d].thread = "alive"} = {dispatcher}

\* C5 amended: a connect_to_waapi invoked while another is in progress fails
\* with the already-reconnecting error and changes nothing of the session; when
\* the admitted connect succeeds, the dispatcher it publishes is the only
\* published one, its consumer thread runs, and every older dispatcher has its
\* stop flag set and takes no further request from its queue (its consumer
\* thread may still be running when the join of stop timed out).
C5_ConnectExclusive ==
    /\ [][\A t \in Threads :
            (th[t].pc = "idle" /\ th'[t].op = "connect" /\ th'[t] # th[t] /\ reconnecting)
            => /\ th'[t].res = "already_reconnecting" /\ th'[t].pc = "idle"
               /\ UNCHANGED <<reconnecting, client, dispatcher, nclient, cstate, disp>>]_vars
    /\ [](Cardinality(Connecting) <= 1)
    /\ []((Connecting = {} /\ lastConn = "ok")
          => /\ dispatcher # 0 /\ client = dispatcher
             /\ disp[dispatcher].thread = "alive" /\ ~disp[dispatcher].stop
             /\ \A d \in Conns \ {dispatcher} :
                   disp[d].thread # "none"
                   => disp[d].stop)
    /\ [][\A d \in Conns :
            (disp[d].stop /\ disp[d].cst = "idle") => disp'[d].cst = "idle"]_vars

\* a connect was refused while another one was stopping the old dispatcher
C5_Witness ==
    \E t, u \in Threads :
        /\ th[t].op = "connect" /\ th[t].res = "already_reconnecting" /\ th[t].pc = "idle"
        /\ th[u].op = "connect" /\ th[u].pc = "stop_join"

\* an older consumer thread still runs after the connect that replaced it
C5_WitnessOldAlive ==
    /\ Connecting = {} /\ lastConn = "ok"
    /\ \E d \in Conns \ {dispatcher} : disp[d].thread = "alive"

\* C6: while a connect is in progress a waapi_call ends with the reconnecting
\* error (not the not-connected one) without enqueueing; the call is never
\* blocked by the connect and never changes the connecting thread; and when
\* the connect has succeeded the same gate admits the call, which returns the
\* result of its RPC when the reply arrives in time.
GateOf(ident) ==
    IF SessionGate # "ok" THEN SessionGate
    ELSE IF ~is_alive(dispatcher) THEN "not_running"
    ELSE IF is_dispatcher_thread(dispatcher, ident) THEN "programmer_error"
    ELSE "ok"

C6_ReconnectFastFail ==
    /\ [][\A t \in Threads :
            (th[t].pc = "idle" /\ th'[t].op = "call" /\ th'[t] # th[t])
            => /\ \A u \in Threads \ {t} : th'[u] = th[u]
               /\ UNCHANGED <<reconnecting, client, dispatcher, disp>>
               /\ Connecting # {} => th'[t].res = "reconnecting" /\ th'[t].pc = "idle"
               /\ (Connecting = {} /\ lastConn = "ok" /\ th'[t].as = 0)
                     => th'[t].pc = "enqueue" /\ th'[t].disp = dispatcher]_vars
    /\ [](\A t \in Callers :
            (th[t].pc = "idle" /\ Connecting # {}) => ENABLED CallGate(t))
    /\ [](\A t \in Threads :
            (th[t].op = "call" /\ th[t].pc = "idle" /\ th[t].res \in {"ok", "err"})
            => th[t].disp # 0)

\* a call refused with the reconnecting error was retried after the connect
\* and returned the result of its RPC
C6_Witness ==
    \E t \in Threads :
        /\ th[t].op = "call" /\ th[t].retry
        /\ th[t].pc = "idle" /\ th[t].res = "ok"
        /\ lastConn = "ok"

\* C7: a failing connect_to_waapi ends with client and dispatcher unpublished,
\* the reconnecting flag cleared, the error raised, the new client closed when
\* the dispatcher failed, and every call refused as not connected until the
\* next connect.
C7_FailedConnect ==
    /\ [][\A t \in Threads :
            (th[t].pc = "fail" /\ th'[t].pc # "fail")
            => /\ th'[t].pc = "idle"
               /\ th'[t].res \in {"client_failed", "dispatcher_failed"}
               /\ client' = 0 /\ dispatcher' = 0 /\ ~reconnecting'
               /\ nclient' = nclient
               /\ th[t].res = "dispatcher_failed" => cstate'[th[t].new_c] = "closed"
               /\ th[t].res = "client_failed" => th[t].new_c = 0]_vars
    /\ []((Connecting = {} /\ lastConn \in {"client_failed", "dispatcher_failed"})
          => /\ client = 0 /\ dispatcher = 0 /\ ~reconnecting
             /\ GateOf(0) = "not_connected"
             /\ \A d \in Conns : disp[d].thread = "alive" => disp[d].stop)

\* a connect failed at the dispatcher after an earlier connect had succeeded
C7_Witness ==
    /\ Connecting = {} /\ lastConn = "dispatcher_failed"
    /\ \E d \in Conns : disp[d].thread # "none"
    /\ \E t \in Threads : th[t].op = "call" /\ th[t].res = "not_connected"

\* ------------------------------------------------------------- plan claims
HasMutating == \E i \in DOMAIN plan : plan[i] \in PLAN_MODIFYING_COMMANDS

\* no step of the plan names an undo verb itself
NoUndoSteps == \A i \in DOMAIN plan : plan[i] \notin UndoVerbs

AllRegistered == \A i \in DOMAIN plan : plan[i] \in COMMANDS

Count(c) == Cardinality({k \in DOMAIN log : log[k].command = c})

\* C8: for a plan with a mutating verb (whose own steps name no undo verb), a
\* plan that succeeds logs exactly one undo_begin_group, exactly one
\* undo_end_group and no undo_cancel_group; a plan that fails because a step,
\* the end-group or the cancel-group failed logs exactly one undo_begin_group
\* and exactly one undo_cancel_group.
C8_UndoBracketLogged ==
    (HasMutating /\ NoUndoSteps)
    => /\ runPc = "returned"
          => /\ Count("undo_begin_group") = 1
             /\ Count("undo_end_group") = 1
             /\ Count("undo_cancel_group") = 0
       /\ (runPc = "raised" /\ failedAt \in {"step", "end"})
          => /\ Count("undo_begin_group") = 1
             /\ Count("undo_cancel_group") = 1

\* C9 as claimed: a plan of registered verbs none of which is in
\* PLAN_MODIFYING_COMMANDS never has an undo call in its log.
C9_NoUndoInLog ==
    (~HasMutating /\ AllRegistered)
    => \A k \in DOMAIN log : log[k].command \notin UndoVerbs

\* C9 amended: for a plan with no verb of PLAN_MODIFYING_COMMANDS the runner
\* adds no undo call of its own: need_undo stays false, the log is the connect
\* entry followed by the entries of the plan's own steps that completed, in
\* order, and every RPC executed was asked for by a step of the plan.
C9_NoBracketForReadOnly ==
    ~HasMutating
    => /\ ~need_undo
       /\ \A k \in DOMAIN log :
             IF k = 1 THEN log[k].command = "connect_to_wwise"
             ELSE log[k] = Entry(plan[k - 1], "ok")
       /\ \A i \in DOMAIN rpcLog : \E j \in DOMAIN plan : plan[j] = rpcLog[i].uri

\* a plan without mutating verb returned, and its log holds the undo call that
\* one of its own steps asked for
C9_Witness ==
    /\ runPc = "returned" /\ ~HasMutating /\ AllRegistered
    /\ Len(plan) = 2 /\ Len(log) = 3
    /\ \E k \in DOMAIN log : log[k].command \in UndoVerbs

\* the undo RPCs the authoring application executed successfully
Executed(uris) == Cardinality({i \in DOMAIN rpcLog : rpcLog[i].uri \in uris /\ rpcLog[i].ok})

\* C10: for a plan with a mutating verb (whose own steps name no undo verb),
\* once the plan has ended and the dispatcher holds none of its requests, every
\* undo group the plan opened has been closed by exactly one executed
\* end-group or cancel-group RPC: no undo group is left open.
C10_NoGroupLeftOpen ==
    (HasMutating /\ NoUndoSteps /\ runPc \in {"returned", "raised"} /\ inflight = <<>>)
    => Executed({"undo_begin_group"}) = Executed({"undo_end_group", "undo_cancel_group"})

\* the place among the invocations of _run_one of the call of step j (j = 0:
\* the runner's own call that precedes the first step)
StepCall(j) == 1 + (IF need_undo THEN 1 ELSE 0) + j

\* C11 as claimed: a step that resolves $last gets the result of the step of
\* the plan immediately before it.
C11_LastIsPrecedingStep ==
    \A i \in DOMAIN resolved :
        refs[i] = "$last"
        => /\ i > 1
           /\ resolved[i] = StepCall(i - 1)
           /\ ran[StepCall(i - 1)] = plan[i - 1]

\* C11 amended: a step after the first that resolves $last gets the result of
\* the step immediately before it; the first step gets the result of the
\* runner's own preceding call, undo_begin_group in undo mode and
\* connect_to_wwise otherwise.
C11_LastIsPrecedingCall ==
    \A i \in DOMAIN resolved :
        refs[i] = "$last"
        => /\ resolved[i] = StepCall(i - 1)
           /\ ran[StepCall(i - 1)] =
                 (IF i > 1 THEN plan[i - 1]
                  ELSE IF need_undo THEN "undo_begin_group" ELSE "connect_to_wwise")

\* the second step of a plan resolved $last and the plan returned
C11_Witness ==
    /\ runPc = "returned"
    /\ 2 \in DOMAIN resolved /\ refs[2] = "$last"

\* the plan failed at a step whose argument names a variable that is not bound
UnboundRaised ==
    /\ runPc = "raised" /\ raised.in = "step"
    /\ IsRef(refs[raised.ix]) /\ Key(refs[raised.ix]) \notin DOMAIN store

\* C12: when a plan fails because a step names an unbound variable, no call
\* has been issued: _run_one was invoked for no command (no connect, no
\* undo_begin_group, no earlier step) and the dispatcher executed no RPC.
C12_UnboundFailsBeforeAnyCall ==
    UnboundRaised => (ran = <<>> /\ rpcLog = <<>>)

\* C13: when a step of the plan failed, what execute_plan hands to its caller
\* carries the partial log with the error: the log of the run, which holds an
\* entry for the failed step and, in undo mode, begins with the
\* undo_begin_group entry and ends with the undo_cancel_group entry.
C13_PartialLogReturned ==
    (response.status = "error" /\ raised.in = "step")
    => /\ response.error = Exc("step")
       /\ response.log = log
       /\ \E k \in DOMAIN log : log[k].command = plan[raised.ix] /\ log[k].status = "error"
       /\ need_undo => /\ log[1].command = "undo_begin_group"
                        /\ log[Len(log)].command = "undo_cancel_group"

\* the invocations of _run_one that precede the first step
Bracket == <<"connect_to_wwise">> \o (IF need_undo THEN <<"undo_begin_group">> ELSE <<>>)

\* C14: once a step has failed, _run_one has been invoked for the runner's
\* opening calls, then for the steps of the plan in order up to the failing
\* step (itself left out when its arguments did not resolve) and for no later
\* step, and then for undo_cancel_group: once when the plan is in undo mode and
\* has ended, never otherwise; the exception raised to the caller is the
\* step's own, also when undo_cancel_group failed.
C14_FirstFailureStops ==
    failedAt = "step"
    => /\ \E n \in {stepIx - 1, stepIx} :
             \E c \in {<<>>, <<"undo_cancel_group">>} :
                /\ ran = Bracket \o SubSeq(plan, 1, n) \o c
                /\ ~need_undo => c = <<>>
                /\ (need_undo /\ runPc = "raised") => c # <<>>
                /\ (runPc = "cancel_step" /\ callSt = "none") => c = <<>>
       /\ runPc = "raised" => raised = [in |-> "step", ix |-> stepIx]
       /\ runPc \in {"cancel_step", "raised"}

\* the first of two steps failed in undo mode and undo_cancel_group failed too
C14_Witness ==
    /\ runPc = "raised" /\ failedAt = "step" /\ need_undo
    /\ stepIx = 1 /\ Len(plan) = 2
    /\ log[Len(log)] = Entry("undo_cancel_group", "error")

\* ----------------------------------------------------- subscription claims
\* C15: the event buffer of a subscription never holds more events than the
\* bound it was configured with.
C15_BufferBounded == \A s \in SubIds : Len(event_q[s]) <= event_q_maxsize

IsPrefix(a, b) == Len(a) <= Len(b) /\ SubSeq(b, 1, Len(a)) = a

\* C16: a finished drain returned at most max_count events, the oldest ones in
\* arrival order; with clear = false the buffer still starts with everything
\* it held when the drain began; for an unknown id the drain returned the
\* empty list.
C16_DrainClearOnly ==
    lastDrain.done
    => /\ lastDrain.given => Len(lastDrain.events) <= lastDrain.max_count
       /\ \A i, j \in DOMAIN lastDrain.events :
             i < j => lastDrain.events[i] < lastDrain.events[j]
       /\ \A i \in DOMAIN lastDrain.events :
             i <= Len(lastDrain.before) => lastDrain.events[i] = lastDrain.before[i]
       /\ ~lastDrain.known => lastDrain.events = <<>>
       /\ ~lastDrain.clear => IsPrefix(lastDrain.before, lastDrain.after)

\* -------------------------------------------------------- client ownership
\* the invocations made on a thread other than the consumer thread of the
\* dispatcher that owns the client
OffConsumer == {x \in invoked : x.by # "consumer"}

\* C17: every call, subscribe and unsubscribe of an RPC client is invoked by
\* the consumer thread of its dispatcher, never by another thread.
C17_OnlyConsumerInvokes == OffConsumer = {}

\* C17, amended: call and subscribe are invoked by the consumer thread only;
\* an unsubscribe is invoked by the consumer thread or, once stop has
\* signalled the consumer, by the thread running stop.
C17_OnlyStopUnsubscribes ==
    \A x \in OffConsumer : x.op = "unsubscribe" /\ x.by = "stopper"

C17_Witness ==
    /\ \E x \in OffConsumer : x.op = "unsubscribe"
    /\ \E y \in invoked : y.by = "consumer" /\ y.op = "subscribe"

\* ------------------------------------------------------------ late replies
\* the threads whose last entry point gave up waiting for its reply
TimedOut == {t \in Threads : th[t].pc = "idle" /\ th[t].res = "timeout"}

\* request rid is still in the queue of dispatcher d
Queued(d, rid) == \E i \in DOMAIN disp[d].pq : disp[d].pq[i].rid = rid

\* C18: when the waiter of a request has given up with Timeout, the request is
\* still queued or in flight until the consumer has handled it; the consumer
\* can always finish the request it handles, whatever its reply_q holds; the
\* late reply stays in the abandoned reply_q, and a waiter that receives a
\* reply receives the reply to its own request.
C18_LateReplyDropped ==
    /\ \A t \in TimedOut :
          /\ th[t].got = 0
          /\ \/ Queued(th[t].disp, th[t].rid)
             \/ disp[th[t].disp].cur.rid = th[t].rid
             \/ replyq[th[t].rid].of = th[t].rid
    /\ \A t \in Threads : th[t].got # 0 => th[t].got = th[t].rid
    /\ \A d \in Conns :
          (disp[d].thread = "alive" /\ disp[d].cst = "busy" /\ ~Frozen(d))
          => ENABLED ConsumerFinish(d)

\* the waiter has given up and the consumer has handled the request since
C18_Witness ==
    \E t \in TimedOut :
        /\ replyq[th[t].rid].of = th[t].rid
        /\ \E x \in invoked : x.by = "consumer"

\* -------------------------------------------------------- scheduled calls
\* the dispatched requests that were scheduled calls (due_in > 0); whether a
\* request carries a reply_q makes no difference to _TimedPQ
Scheduled == {i \in DOMAIN popped : popped[i].scheduled}

\* C19: a scheduled call is dispatched at or after its due time, and scheduled
\* calls are dispatched in due order: none is dispatched after one with a
\* later due time.
C19_ScheduledInDueOrder ==
    /\ \A i \in Scheduled : popped[i].due <= now
    /\ \A i, j \in Scheduled : i < j => popped[i].due <= popped[j].due

\* -------------------------------------------------------------- disconnect
\* this step is a step of disconnect_from_wwise_client on thread t
DisconnectStep(t) == th'[t] # th[t] /\ th'[t].op = "disconnect"

\* the dispatcher the disconnect of thread t works on (0: none)
Target(t) == IF th[t].pc = "idle" THEN dispatcher ELSE th[t].old_d

\* the dispatchers with their count of disconnects left out
Stripped(ds) == [d \in Conns |-> [ds[d] EXCEPT !.ndisc = 0]]

\* C20: disconnect raises no error and, when it returns, the dispatcher has
\* been told to stop and its client is closed; a disconnect of a
\* dispatcher that an earlier disconnect has already stopped invokes no
\* disconnect() on any client and leaves the session state as the earlier
\* disconnect left it: it changes nothing, except that its stop empties the
\* registry again when the consumer has registered a subscription since.
C20_DisconnectIdempotent ==
    [][\A t \in Threads :
          DisconnectStep(t)
          => LET d == Target(t)
             IN /\ th'[t].pc = "idle" => th'[t].res = "ok"
                /\ (th'[t].pc = "idle" /\ d # 0)
                   => /\ disp'[d].stop
                      /\ disp'[d].client = 0
                      /\ cstate'[d] = "closed"
                /\ (d # 0 /\ disp[d].ndisc > 0)
                   => /\ closes' = closes
                      /\ cstate' = cstate
                      /\ client' = client
                      /\ dispatcher' = dispatcher
                      /\ reconnecting' = reconnecting
                      /\ invoked' = invoked
                      /\ \/ Stripped(disp') = Stripped(disp)
                         \/ Stripped(disp') = Stripped([disp EXCEPT ![d].subs = {}])]_vars

\* a second disconnect of the same dispatcher has returned, after a call in
\* between was refused, and the client was closed once
C20_Witness ==
    \E d \in Conns :
        /\ disp[d].ndisc = 2
        /\ closes[d] = 1
        /\ th[1].op = "disconnect" /\ th[1].pc = "idle"
        /\ th[2].op = "call" /\ th[2].res = "not_running" /\ th[2].disp = d

\* ------------------------------------------------------- accepted requests
\* the session is Connected: not reconnecting, client and dispatcher
\* published, the dispatcher's consumer thread alive
Connected == ~reconnecting /\ client # 0 /\ dispatcher # 0 /\ is_alive(dispatcher)

\* this step puts a request of thread t into the queue of a dispatcher
Accepts(t) ==
    /\ th[t].pc = "enqueue"
    /\ Len(disp'[th[t].disp].pq) > Len(disp[th[t].disp].pq)

\* C21: a request is put into a dispatcher's queue only while the session is
\* Connected and that dispatcher is the published one; a submission that
\* starts in any other state ends with an error and enqueues nothing.
C21_AcceptedOnlyConnected ==
    [][\A t \in Threads :
          /\ Accepts(t) => (Connected /\ th[t].disp = dispatcher)
          /\ (th[t].pc = "idle" /\ th'[t].op = "call" /\ th'[t] # th[t] /\ ~Connected)
             => (th'[t].pc = "idle" /\ th'[t].res \in {"reconnecting", "not_connected",
                                                       "not_running"})]_vars

\* ----------------------------------------------------- subscription registry
\* stop has returned for dispatcher d: its last statement, self._client = None,
\* was executed
StopReturned(d) == disp[d].stop /\ disp[d].client = 0

\* C22: an entry is in the registry only between the success of its subscribe
\* and the processing of its unsubscribe or the stop of the dispatcher: a
\* dispatcher whose stop has returned holds no entry, and an unsubscribe that
\* is being processed has its entry removed already.
C22_EntryLifetime ==
    \A d \in Conns :
        /\ StopReturned(d) => disp[d].subs = {}
        /\ (disp[d].cst = "busy" /\ disp[d].cur.kind = "unsubscribe")
           => disp[d].cur.sub \notin disp[d].subs

\* ------------------------------------------------------------- one consumer
\* C23: a dispatcher never has more than one consumer thread, and a request
\* is being handled on a dispatcher's client only by that one thread, so at
\* most one RPC of a dequeued request is in progress per client.
C23_OneInFlight ==
    \A d \in Conns :
        /\ disp[d].nthreads <= 1
        /\ disp[d].nthreads = (IF disp[d].thread = "alive" THEN 1 ELSE 0)
        /\ disp[d].cst # "idle" => disp[d].nthreads = 1

\* a request is in flight on a dispatcher on which start can be called again
C23_Witness ==
    \E d \in Conns : disp[d].cst = "busy" /\ disp[d].nthreads = 1 /\ ENABLED StartAgain(d)

\* ------------------------------------------------------------ get_next_due
\* C24: whenever get_next_due returns a request, it is the head of the heap
\* (no queued request has a smaller key) and its due_at is not later than the
\* clock; get_next_due returns None only when the stop flag is set.
C24_ReturnsOnlyDue ==
    [][/\ popped' # popped
          => LET r == popped'[Len(popped')]
             IN /\ r = pq[1]
                /\ r.due <= now
                /\ \A x \in Range(pq) : ~TupleLt(x, r)
       /\ (cpc = "run" /\ cpc' = "exited") => stopFlag]_vars

\* a scheduled request was returned after the consumer had to wait for it,
\* and later the stop flag made get_next_due return None
C24_Witness ==
    /\ \E i \in DOMAIN popped : popped[i].scheduled
    /\ cpc = "exited"
    /\ pq # <<>>

\* ----------------------------------------------------- requests at shutdown
\* C25: once the stop flag is set, no request is returned by get_next_due.
C25_NoDispatchAfterStop == [][stopFlag => popped' = popped]_vars

\* C25, amended: once the stop flag is set, no new iteration of get_next_due
\* begins, so only the iteration that read the flag before it was set can
\* still return a request; once get_next_due has returned None nothing is
\* returned any more and what is queued then is never dispatched.
C25_NoIterationAfterStop ==
    [][/\ (stopFlag /\ cpc = "run") => cpc' # "checked"
       /\ (stopFlag /\ popped' # popped) => (cpc = "checked" /\ cpc' = "run")
       /\ cpc = "exited" => (cpc' = "exited" /\ popped' = popped)]_vars

\* the consumer has exited and a request that is due is left in the queue
C25_Witness ==
    /\ cpc = "exited"
    /\ pq # <<>>
    /\ pq[1].due <= now
    /\ popped # <<>>

\* C26: after the stop flag is set the consumer eventually exits
\* (get_next_due returns None), however far ahead the head of the queue is
\* scheduled; every wait is followed by a new read of the flag.
C26_StopTerminates ==
    /\ stopFlag ~> (cpc = "exited")
    /\ [][(cpc = "checked" /\ popped' = popped) => cpc' \in {"checked", "run"}]_vars

\* the consumer has exited while the head of the queue is not yet due
C26_Witness ==
    /\ cpc = "exited"
    /\ pq # <<>>
    /\ pq[1].due > now

\* C27: once stop has returned on a dispatcher, its registry is empty and
\* stays empty, its client is closed and its client reference is null,
\* whether or not the consumer exited within the timeout.
C27_StopLeavesNothing ==
    \A d \in Conns :
        StopReturned(d) =>
            /\ disp[d].subs = {}
            /\ cstate[d] = "closed"
            /\ disp[d].client = 0

\* ------------------------------------------------------------- lock order
Holding(t, l) == lockOwner[l] = t
Acquiring(t, l) == lockOwner[l] # t /\ lockOwner'[l] = t

\* C28: no thread acquires _lock while holding _cv or _subscription_lock, no
\* thread acquires _cv or _subscription_lock while holding _lock, and the
\* consumer thread never acquires _lock.
C28_NoNesting ==
    [][\A t \in LockThreads :
         /\ Acquiring(t, "_lock") =>
                (~Holding(t, "_cv") /\ ~Holding(t, "_subscription_lock"))
         /\ (Acquiring(t, "_cv") \/ Acquiring(t, "_subscription_lock")) =>
                ~Holding(t, "_lock")
         /\ t = ConsumerThread => ~Acquiring(t, "_lock")]_vars

\* C28, amended: _lock is never acquired while holding _cv or
\* _subscription_lock, _cv is never acquired while holding _lock, the
\* consumer never acquires _lock, and _subscription_lock is acquired while
\* holding _lock only inside disconnect_from_wwise_client.
C28_OneWayNesting ==
    [][\A t \in LockThreads :
         /\ Acquiring(t, "_lock") =>
                (~Holding(t, "_cv") /\ ~Holding(t, "_subscription_lock"))
         /\ Acquiring(t, "_cv") => ~Holding(t, "_lock")
         /\ (Acquiring(t, "_subscription_lock") /\ Holding(t, "_lock")) =>
                lockpc[t].op = "disconnect_from_wwise_client"
         /\ t = ConsumerThread => ~Acquiring(t, "_lock")]_vars

\* disconnect holds _lock and _subscription_lock together while another
\* thread is at a gate and the consumer is inside get_next_due
C28_Witness ==
    \E t \in Threads :
        /\ Holding(t, "_lock")
        /\ Holding(t, "_subscription_lock")
        /\ \E u \in Threads \ {t} :
               /\ lockpc[u].op \in {"waapi_call", "connect_to_waapi"}
               /\ lockpc[u].i = 1
        /\ Holding(ConsumerThread, "_cv")

\* ------------------------------------------------------ the published pair
\* C29: between any two sections under _lock the published client and
\* dispatcher are both null or both set, and both null while the
\* reconnecting flag is set; a dispatcher is published only by phase 4 of
\* connect_to_waapi, with its consumer thread started, after stop has
\* returned on the old dispatcher and the old client was closed, and the old
\* client is closed only after stop has returned on the old dispatcher.
C29_PublishedPair ==
    /\ []((client = 0) <=> (dispatcher = 0))
    /\ [](reconnecting => (client = 0 /\ dispatcher = 0))
    /\ [][(dispatcher' # dispatcher /\ dispatcher' # 0) =>
            \E t \in Threads :
                /\ th[t].op = "connect" /\ th[t].pc = "publish" /\ th'[t].pc = "idle"
                /\ dispatcher' = th[t].new_c /\ client' = th[t].new_c
                /\ disp[th[t].new_c].thread = "alive"
                /\ disp[th[t].new_c].nthreads = 1
                /\ th[t].old_d # 0 => StopReturned(th[t].old_d)
                /\ th[t].old_c # 0 => cstate[th[t].old_c] = "closed"]_vars
    /\ [][\A t \in Threads :
            (th[t].pc = "old_client" /\ th'[t].pc # "old_client" /\ th[t].old_d # 0)
            => StopReturned(th[t].old_d)]_vars

\* a second connect has published its pair while the consumer thread of the
\* dispatcher it replaced is still running
C29_Witness ==
    /\ ~reconnecting
    /\ dispatcher # 0 /\ client = dispatcher
    /\ \E d \in Conns \ {dispatcher} :
           /\ StopReturned(d)
           /\ cstate[d] = "closed"
           /\ disp[d].thread = "alive"

\* ------------------------------------------------- the reconnecting flag
\* C30: a connect_to_waapi that set the reconnecting flag leaves it clear when
\* it returns or raises, the flag is set only while that connect is in
\* progress, and a connect invoked when none is in progress is admitted (it
\* sets the flag instead of failing as already reconnecting).
C30_FlagCleared ==
    /\ [](reconnecting <=> Connecting # {})
    /\ [][\A t \in Threads :
            /\ (th[t].op = "connect" /\ th[t].pc # "idle" /\ th'[t].pc = "idle")
               => (reconnecting /\ ~reconnecting')
            /\ (Connecting = {} /\ th[t].pc = "idle" /\ th'[t] # th[t]
                   /\ th'[t].op = "connect")
               => (th'[t].pc # "idle" /\ reconnecting')]_vars

\* a connect failed and raised, and a later connect was admitted and is in
\* progress
C30_Witness ==
    \E t, u \in Threads :
        /\ th[t].op = "connect" /\ th[t].pc = "idle"
        /\ th[t].res \in {"client_failed", "dispatcher_failed"}
        /\ th[u].op = "connect" /\ th[u].pc # "idle"
        /\ lastConn \in {"client_failed", "dispatcher_failed"}
        /\ reconnecting

\* ------------------------------------------- requests of a replaced dispatcher
\* C31: a scheduled fire-and-forget request still at the head of the queue of
\* a dispatcher whose stop flag is set is never taken from that queue.
C31_DroppedWithOld ==
    [][\A d \in Conns :
         (disp[d].stop /\ disp[d].pq # <<>> /\ disp[d].pq[1].scheduled)
         => Len(disp'[d].pq) >= Len(disp[d].pq)]_vars

\* C31, amended: a request is only ever in the queue it was enqueued on (the
\* new dispatcher starts with an empty queue and nothing is re-queued), and a
\* dispatcher whose stop flag is set takes a request from its queue only to
\* complete the iteration of get_next_due that began before the flag was set.
C31_DroppedUnlessInIteration ==
    [][\A d \in Conns :
         /\ \A r \in Range(disp'[d].pq) :
               \/ r \in Range(disp[d].pq)
               \/ (r.rid = ncalls' /\ ncalls' = ncalls + 1)
         /\ (disp[d].stop /\ disp[d].cst # "checked")
            => Len(disp'[d].pq) >= Len(disp[d].pq)
         /\ (disp[d].stop /\ disp[d].cst = "idle") => disp'[d].cst = disp[d].cst]_vars

\* a connect has replaced a dispatcher whose consumer has exited and whose
\* queue still holds a scheduled request that has come due
C31_Witness ==
    /\ dispatcher # 0 /\ lastConn = "ok" /\ ~reconnecting
    /\ \E d \in Conns \ {dispatcher} :
           /\ disp[d].thread = "dead"
           /\ disp[d].pq # <<>>
           /\ disp[d].pq[1].scheduled /\ ~disp[d].pq[1].wait
           /\ disp[d].pq[1].due <= now

\* ---------------------------------------------------- closing the undo group
\* the plan has ended and every one of its steps succeeded
AllStepsOk == runPc \in {"returned", "raised"} /\ need_undo /\ failedAt \in {"none", "end"}

\* C32: when all steps of an undo-mode plan have succeeded, _run_one was
\* invoked with undo_end_group once, right after the last step; when it
\* succeeded the plan returns; when it failed, undo_cancel_group was invoked
\* once after it and the error raised is the end-group error, whether the
\* cancel succeeded or not.
C32_EndThenCancel ==
    AllStepsOk =>
        /\ ran = <<"connect_to_wwise", "undo_begin_group">> \o plan \o
                 (IF failedAt = "end" THEN <<"undo_end_group", "undo_cancel_group">>
                  ELSE <<"undo_end_group">>)
        /\ failedAt = "none" => (runPc = "returned" /\ raised = NoExc)
        /\ failedAt = "end" => (runPc = "raised" /\ raised = Exc("end"))

\* undo_end_group failed and the undo_cancel_group attempted after it failed
\* too: the cancel left no entry in the log
C32_Witness ==
    /\ runPc = "raised" /\ failedAt = "end"
    /\ ran[Len(ran)] = "undo_cancel_group"
    /\ log[Len(log)] = Entry("undo_end_group", "error")
    /\ \A i \in DOMAIN log : log[i].command # "undo_cancel_group"

\* ------------------------------------------------------- aborting the plan
\* C33: when connect_to_wwise fails, or undo_begin_group fails in undo mode,
\* the plan ends there: _run_one is invoked for no step and for no
\* undo_end_group or undo_cancel_group, no RPC of a step, of an end-group or
\* of a cancel-group is executed, and that failure is what the caller gets.
C33_AbortedBeforeSteps ==
    failedAt \in {"connect", "begin"} =>
        /\ runPc = "raised"
        /\ raised = Exc(failedAt)
        /\ ran = (IF failedAt = "connect" THEN <<"connect_to_wwise">>
                  ELSE <<"connect_to_wwise", "undo_begin_group">>)
        /\ \A i \in DOMAIN rpcLog : rpcLog[i].uri = "undo_begin_group"
        /\ response # NoResponse => (response.status = "error" /\ response.error = raised)

\* undo_begin_group failed for a plan with steps and the caller has the error
C33_Witness ==
    /\ failedAt = "begin"
    /\ plan # <<>>
    /\ response.status = "error"
    /\ response.error = Exc("begin")

\* ---------------------------------------------------- variable resolution
\* the entries of a bound list that are mappings containing the field
WithField(entries, field) ==
    SelectSeq(entries, LAMBDA d : d.t = "dict" /\ HasKey(d.items, field))

\* C34: `$name` yields the bound value; `$name.field` yields binding[field]
\* for a mapping and, for a sequence, the entry[field] of the entries that are
\* mappings containing field, in order; a list or a mapping is resolved item
\* by item; every other value is returned unchanged.
C34_Resolution ==
    rstep = "returned" =>
        /\ \A name \in Names :
              (rval = StrValue(VarStr(name)) /\ HasKey(rstore, name))
              => rres = GetItem(rstore, name)
        /\ \A name \in Names, field \in Fields :
              (rval = StrValue(FieldStr(name, field)) /\ HasKey(rstore, name))
              => LET binding == GetItem(rstore, name)
                 IN /\ (binding.t = "dict" /\ HasKey(binding.items, field))
                       => rres = GetItem(binding.items, field)
                    /\ binding.t = "list"
                       => /\ rres.t = "list"
                          /\ Len(rres.items) = Len(WithField(binding.items, field))
                          /\ \A i \in DOMAIN rres.items :
                                rres.items[i] = GetItem(WithField(binding.items, field)[i].items, field)
        /\ (rval.t \in {"list", "dict"} /\ rres.t # "raise")
           => /\ rres.t = rval.t
              /\ Len(rres.items) = Len(rval.items)
              /\ \A i \in DOMAIN rval.items :
                    IF rval.t = "list"
                    THEN rres.items[i] = _resolve(rval.items[i], rstore)
                    ELSE /\ rres.items[i].k = rval.items[i].k
                         /\ rres.items[i].e = _resolve(rval.items[i].e, rstore)
        /\ (rval.t \in {"list", "dict"} /\ rres.t = "raise")
           => \E i \in DOMAIN rval.items :
                 rres = _resolve(IF rval.t = "list" THEN rval.items[i] ELSE rval.items[i].e,
                                 rstore)
        /\ (rval.t \notin {"list", "dict"} /\ ~(rval.t = "str" /\ Head(rval.s) = "$"))
           => rres = rval

\* a list holding `$a.f` and a nested list was resolved against a store that
\* binds a to a list of which one entry lacks the field
C34_Witness ==
    /\ rstep = "returned"
    /\ rval = ListValue(<<StrValue(FieldStr(<<"a">>, <<"f">>)), ListValue(<<StrValue(VarStr(<<"a">>))>>)>>)
    /\ HasKey(rstore, <<"a">>)
    /\ GetItem(rstore, <<"a">>).t = "list"
    /\ Len(GetItem(rstore, <<"a">>).items) = 2
    /\ Len(rres.items[1].items) = 1

\* ------------------------------------------------ enqueue against a stop
\* C35: a request is only ever added to the queue of the published
\* dispatcher, and never to the queue of a dispatcher whose stop flag is set.
C35_EnqueueOnRunning ==
    [][\A d \in Conns :
          Len(disp'[d].pq) > Len(disp[d].pq) => (dispatcher = d /\ ~disp[d].stop)]_vars

\* ------------------------------------------- subscriptions nobody was told of
\* C36: when waapi_subscribe raised to its caller (Timeout or error), no entry
\* for that request is in the registry of any dispatcher.
C36_RaisedMeansUnregistered ==
    \A t \in Threads :
        (th[t].op = "subscribe" /\ th[t].pc = "idle" /\ th[t].rid # 0
            /\ th[t].res \in {"timeout", "err"})
        => \A d \in Conns : th[t].rid \notin disp[d].subs

\* ----------------------------------------------- calls after a disconnect
\* C37: once disconnect_from_wwise_client has stopped the published dispatcher
\* and returned, and until a connect publishes another one, a waapi_call that
\* is started does not get past its checks to the enqueue, whether or not
\* the consumer thread exited within the shutdown timeout.
C37_FailsAfterDisconnect ==
    [][\A t \in Threads :
          (/\ dispatcher # 0
           /\ disp[dispatcher].ndisc > 0
           /\ th[t].pc = "idle"
           /\ th'[t].op = "call")
          => th'[t].pc # "enqueue"]_vars

\* --------------------------------------------------------- deadlock freedom
\* the mutex a thread is waiting for ("none": it is not waiting)
WaitsFor(t) ==
    IF lockpc[t] = NoLockOp \/ lockpc[t].i > Len(LockScript(lockpc[t].op)) THEN "none"
    ELSE LET step == LockScript(lockpc[t].op)[lockpc[t].i]
         IN IF step.do = "acquire" /\ lockOwner[step.lock] # 0 THEN step.lock ELSE "none"

\* following the owners of the awaited mutexes from t, for at most n steps,
\* leads to a thread that is not waiting
RECURSIVE LeadsToRunning(_, _)
LeadsToRunning(t, n) ==
    IF WaitsFor(t) = "none" THEN TRUE
    ELSE IF n = 0 THEN FALSE
    ELSE LeadsToRunning(lockOwner[WaitsFor(t)], n - 1)

\* C38: in no reachable state does a thread wait for _lock, the queue mutex
\* or the registry mutex in a cycle of waiting threads: every wait leads, owner
\* by owner, to a thread that can take its next step.
C38_DeadlockFree ==
    \A t \in LockThreads : LeadsToRunning(t, Cardinality(LockThreads))

\* an application thread waits for _lock, held by a disconnect that waits for
\* the registry mutex, held by the consumer
C38_Witness ==
    \E t, u \in LockThreads :
        /\ WaitsFor(t) = "_lock"
        /\ lockOwner["_lock"] = u
        /\ lockpc[u].op = "disconnect_from_wwise_client"
        /\ WaitsFor(u) = "_subscription_lock"
        /\ lockOwner["_subscription_lock"] = ConsumerThread

\* ------------------------------------- subscriptions across a replacement
\* C39: once a connect has published its new dispatcher, no subscription of
\* a replaced dispatcher is registered any more: only the published
\* dispatcher has registry entries, and those were requested on it.
C39_NoneOutlivesConnect ==
    dispatcher # 0 =>
        /\ \A o \in Conns \ {dispatcher} : disp[o].subs = {}
        /\ \A s \in disp[dispatcher].subs :
              \A t \in Threads : (th[t].rid = s /\ th[t].op = "subscribe")
                                  => th[t].disp = dispatcher

\* ------------------------------------------------- the store across a plan
\* a step before the one the loop is at was saved under the name
SavedBefore(name) == \E i \in 1..(stepIx - 1) : i \in DOMAIN saves /\ saves[i] = name

\* the first step finds `last` bound: to the result of connect_to_wwise (the
\* first call of _run_one) or, in undo mode, of undo_begin_group (the second)
FirstStepLast ==
    (runPc = "steps" /\ stepIx = 1 /\ callSt = "none")
    => /\ "last" \in DOMAIN store
       /\ store["last"] = IF need_undo THEN 2 ELSE 1
       /\ (refs[1] = "$last" /\ ~ParseFails(plan[1])) => ~ResolveFails

\* a step that returned is saved under its save_as
StepSaved ==
    (runPc = "steps" /\ callSt = "ok" /\ saves[stepIx] # "none")
    => (saves[stepIx] \in DOMAIN store' /\ store'[saves[stepIx]] = Len(ran))

\* the binding of a name under which a step was saved changes only when a
\* step saved under that name returns
KeptUntilSavedAgain(name) ==
    (SavedBefore(name) /\ name \in DOMAIN store)
    => \/ (name \in DOMAIN store' /\ store'[name] = store[name])
       \/ (runPc = "steps" /\ callSt = "ok" /\ saves[stepIx] = name)

\* C40 as stated: `last` is bound in the first step by the runner's own
\* calls, and every save_as binding keeps its value until a later step saves
\* under the same name.
C40_SavedKept ==
    [][/\ FirstStepLast
       /\ StepSaved
       /\ \A name \in SaveNames : KeptUntilSavedAgain(name)]_vars

\* C40 (amended): `last` is bound in the first step by the runner's own
\* calls; a save_as binding under a name other than `last` keeps its value
\* until a later step saves under the same name; a binding saved as `last`
\* is the implicit binding and is replaced by the next call that returns.
C40_SavedKeptUnlessLast ==
    [][/\ FirstStepLast
       /\ StepSaved
       /\ \A name \in SaveNames \ {"last"} : KeptUntilSavedAgain(name)
       /\ (callSt = "ok" /\ runPc \in {"steps", "end", "cancel_step", "cancel_end"}
             /\ "last" \in DOMAIN store' /\ store' # store)
          => store'["last"] = Len(ran)]_vars

\* the first step was saved as x, and the second step, saved under no name,
\* has returned: x still names the first result, last the second
C40_Witness ==
    /\ Len(saves) = 2 /\ saves[1] = "x" /\ saves[2] = "none"
    /\ stepIx = 3
    /\ "x" \in DOMAIN store /\ "last" \in DOMAIN store
    /\ store["x"] # store["last"]

====
